---- MODULE Spec2Model ----
(***************************************************************************)
(* WHALE offline-first data layer (frontend/js/storage.js,                 *)
(* WhaleStorageManager v2.6.0, with the v2.4.0 and v2.2.0 revisions where  *)
(* they differ).                                                           *)
(*                                                                         *)
(* JavaScript objects are functions from the keys that are present to      *)
(* string values; a key that is present with the value undefined maps to   *)
(* Undef.  The embedded database (PouchDB) is the store `db`: one entry    *)
(* per id ever written, holding the winning revision and a deleted flag.   *)
(***************************************************************************)
EXTENDS Integers, Sequences, FiniteSets, TLC

VARIABLES
    db,                       \* PouchDB 'whale_database': id -> [doc, deleted]
    revSeq,                   \* number of revisions the database has assigned
    idSeq,                    \* number of ids save() has generated
    now,                      \* the wall clock (new Date())
    local,                    \* localStorage: full key -> wrapped entry
    last,                     \* the last completed call: operation, arguments, outcome
    initialized,              \* this.initialized
    initializationPromise,    \* this.initializationPromise
    promises,                 \* promise id -> "pending" | "resolved" | "rejected"
    handles,                  \* PouchDB handles created by new PouchDB(...)
    indexes,                  \* indexes that exist in the database
    indexRuns,                \* number of createIndexes() runs started
    subscriptions,            \* live change-feed subscriptions started
    task,                     \* per caller: the asynchronous call it is inside
    env,                      \* what the page has loaded: PouchDB, the find plugin
    file,                     \* the backup file the browser downloaded last
    notifier,                 \* changeListeners, the live change feed, the calls it made
    api                       \* the WhaleAPI instance: its token, its refreshing flag

storeVars == <<db, revSeq, idSeq, now, local>>
initVars == <<initialized, initializationPromise, promises, handles, indexes,
              indexRuns, subscriptions>>
outside == <<env, file, notifier, api>>
vars == <<db, revSeq, idSeq, now, local, last, initialized, initializationPromise,
          promises, handles, indexes, indexRuns, subscriptions, task, env, file, notifier,
          api>>

---------------------------------------------------------------------------
(* Bounds of the model *)

MaxWrites == 3        \* revisions the database may assign in one behaviour of upserts
MaxCrudWrites == 2    \* the same, for direct save / update / delete calls
MaxTime == 2          \* clock readings
MaxImport == 2        \* documents in an imported snapshot
MaxInits == 3         \* _performInit() runs started in one behaviour
MaxResets == 1        \* reset() calls in one behaviour

---------------------------------------------------------------------------
(* JavaScript values and objects *)

Undef == "undefined"
Null == ("null" :> "null")

Has(o, k) == k \in DOMAIN o
Field(o, k) == IF k \in DOMAIN o THEN o[k] ELSE Undef
Truthy(o, k) == k \in DOMAIN o /\ o[k] # Undef /\ o[k] # ""
Spread(a, b) ==
    [k \in (DOMAIN a) \cup (DOMAIN b) |-> IF k \in DOMAIN b THEN b[k] ELSE a[k]]
Without(o, k) == [x \in (DOMAIN o) \ {k} |-> o[x]]
Obj1(k, v) == (k :> v)
EmptyObj == [k \in {} |-> Undef]

\* What the database keeps of a document: keys whose value is undefined are dropped.
Clone(o) == [k \in {x \in DOMAIN o : o[x] # Undef} |-> o[k]]

Time(n) == "t" \o ToString(n)
Rev(n) == ToString(n) \o "-rev"
GenId(type, n) == type \o "_" \o ToString(n)

Dates == <<"2024-04-30", "2024-05-01", "2024-05-31">>
DateSet == {Dates[i] : i \in 1..Len(Dates)}
DateIdx(d) == CHOOSE i \in 1..Len(Dates) : Dates[i] = d
\* ISO dates compare as strings in the order of the calendar
DateLt(a, b) == a \in DateSet /\ b \in DateSet /\ DateIdx(a) < DateIdx(b)
DateLe(a, b) == a \in DateSet /\ b \in DateSet /\ DateIdx(a) <= DateIdx(b)

---------------------------------------------------------------------------
(* The embedded database: put, get, remove, allDocs, find *)

Live(d) == {id \in DOMAIN d : ~d[id].deleted}
Docs(d) == {d[id].doc : id \in Live(d)}

DbGet(d, id) ==
    IF id \in Live(d) THEN [ok |-> TRUE, doc |-> d[id].doc]
    ELSE [ok |-> FALSE, name |-> "not_found"]

\* (mutant) a put that accepts any revision: the last write wins
PutAcceptedAnyRev(d, doc) == Truthy(doc, "_id")

\* db.put(doc): a document needs an _id; a first write must carry no _rev; a later
\* write must carry the stored revision.  The new revision is a fresh token.
PutAccepted(d, doc) ==
    /\ Truthy(doc, "_id")
    /\ IF doc["_id"] \in Live(d)
       THEN Has(doc, "_rev") /\ doc["_rev"] = d[doc["_id"]].doc["_rev"]
       ELSE IF doc["_id"] \in DOMAIN d
            THEN ~Truthy(doc, "_rev") \/ doc["_rev"] = d[doc["_id"]].doc["_rev"]
            ELSE ~Truthy(doc, "_rev")

DbPut(d, n, doc) ==
    IF ~Truthy(doc, "_id") THEN [ok |-> FALSE, name |-> "missing_id", db |-> d]
    ELSE IF ~PutAccepted(d, doc) THEN [ok |-> FALSE, name |-> "conflict", db |-> d]
    ELSE LET stored == Spread(Clone(doc), Obj1("_rev", Rev(n + 1)))
         IN [ok |-> TRUE, id |-> doc["_id"], rev |-> Rev(n + 1),
             db |-> Spread(d, Obj1(doc["_id"], [doc |-> stored, deleted |-> FALSE]))]

\* db.remove(doc): a put of the tombstone {_id, _rev, _deleted: true}
DbRemove(d, n, doc) ==
    IF ~Truthy(doc, "_id") \/ doc["_id"] \notin Live(d)
    THEN [ok |-> FALSE, name |-> "not_found", db |-> d]
    ELSE IF ~(Has(doc, "_rev") /\ doc["_rev"] = d[doc["_id"]].doc["_rev"])
    THEN [ok |-> FALSE, name |-> "conflict", db |-> d]
    ELSE [ok |-> TRUE, id |-> doc["_id"], rev |-> Rev(n + 1),
          db |-> Spread(d, Obj1(doc["_id"],
                   [doc |-> Spread(d[doc["_id"]].doc, Obj1("_rev", Rev(n + 1))),
                    deleted |-> TRUE]))]

\* db.allDocs({include_docs: true}): every live document
AllDocs(d) == Docs(d)

\* db.find({selector}) with equality conditions only: the matching documents
Matches(doc, selector) == \A k \in DOMAIN selector : Has(doc, k) /\ doc[k] = selector[k]
DbFind(d, selector) == {doc \in Docs(d) : Matches(doc, selector)}

---------------------------------------------------------------------------
(* The key/value scratch space (localStorage under the prefix) *)

prefix == "whale_"
version == "2.6.0"

\* the null a scratch-space read returns, among the string values of the model, and
\* what `!value` is true of
NullValue == "null"
Falsy(value) == value \in {Undef, NullValue, ""}

\* setLocal(key, value), the item being written: JSON.stringify of {value,
\* timestamp, version} writes no key for an undefined value
SetLocal(l, t, key, value) ==
    Spread(l, Obj1(prefix \o key,
                   Clone(("value" :> value) @@ ("timestamp" :> Time(t))
                         @@ ("version" :> version))))

\* getLocal(key): null without an item, else the value of the parsed item
GetLocal(l, key) ==
    IF Has(l, prefix \o key) THEN Field(l[prefix \o key], "value") ELSE NullValue

\* (mutant) removeLocal that empties the scratch space
RemoveLocalClears(l, key) == EmptyObj

\* removeLocal(key)
RemoveLocal(l, key) == Without(l, prefix \o key)

---------------------------------------------------------------------------
(* Document operations of WhaleStorageManager.  Each takes the store state *)
(* s = [db, revSeq, idSeq, now, local] and returns [ok, ret, s] (on an     *)
(* error: ok = FALSE, the error's name, and the store as the error left    *)
(* it).                                                                    *)

Store == [db |-> db, revSeq |-> revSeq, idSeq |-> idSeq, now |-> now, local |-> local]

Thrown(s, name) == [ok |-> FALSE, name |-> name, ret |-> Null, s |-> s]
Returned(s, ret) == [ok |-> TRUE, name |-> "", ret |-> ret, s |-> s]

\* (mutant) stamps createdAt with the current time even when data carries one
SaveDocStampsAlways(s, type, data) ==
    LET id == IF Truthy(data, "_id") THEN data["_id"] ELSE GenId(type, s.idSeq + 1)
        base == ("_id" :> id) @@ ("type" :> type)
        stamps == ("createdAt" :> Time(s.now)) @@ ("updatedAt" :> Time(s.now))
        full == Spread(Spread(base, data), stamps)
    IN IF ~Truthy(data, "_rev") THEN Without(full, "_rev") ELSE full

\* save(type, data)
SaveDoc(s, type, data) ==
    LET id == IF Truthy(data, "_id") THEN data["_id"] ELSE GenId(type, s.idSeq + 1)
        base == ("_id" :> id) @@ ("type" :> type)
        stamps == ("createdAt" :> (IF Truthy(data, "createdAt") THEN data["createdAt"]
                                   ELSE Time(s.now)))
                  @@ ("updatedAt" :> Time(s.now))
        full == Spread(Spread(base, data), stamps)
    IN IF ~Truthy(data, "_rev") THEN Without(full, "_rev") ELSE full

\* await this.db.put(doc); return { ...doc, _rev: result.rev }
PutDoc(s, doc) ==
    LET result == DbPut(s.db, s.revSeq, doc)
    IN IF result.ok
       THEN Returned([s EXCEPT !.db = result.db, !.revSeq = @ + 1],
                     Spread(doc, Obj1("_rev", result.rev)))
       ELSE Thrown(s, result.name)

\* the template literal of save() draws a new id only when data has none
IdDrawn(s, data) == [s EXCEPT !.idSeq = IF Truthy(data, "_id") THEN @ ELSE @ + 1]

\* (mutant) returns the document as it was sent, without the revision just assigned
SaveReturnsSent(s, type, data) ==
    LET r == PutDoc(IdDrawn(s, data), SaveDoc(s, type, data))
    IN IF r.ok THEN Returned(r.s, SaveDoc(s, type, data)) ELSE r

Save(s, type, data) == PutDoc(IdDrawn(s, data), SaveDoc(s, type, data))

\* (mutant) get() that turns every error of db.get into null
GetOutcomeSwallows(r) ==
    IF r.ok THEN [ok |-> TRUE, name |-> "", ret |-> r.doc]
    ELSE [ok |-> TRUE, name |-> "", ret |-> Null]

\* get(id), from the outcome of its db.get: the document, null for not_found, and
\* any other error thrown again
GetOutcome(r) ==
    IF r.ok THEN [ok |-> TRUE, name |-> "", ret |-> r.doc]
    ELSE IF r.name = "not_found" THEN [ok |-> TRUE, name |-> "", ret |-> Null]
    ELSE [ok |-> FALSE, name |-> r.name, ret |-> Null]

\* get(id)
Get(s, id) == GetOutcome(DbGet(s.db, id)).ret

\* update(id, updates), from the document its get() read
\* (mutant) replaces the stored fields by the updates instead of merging them
UpdateDocReplace(s, doc, updates) ==
    Spread(Spread(("_id" :> doc["_id"]) @@ ("_rev" :> doc["_rev"]) @@ ("type" :> doc["type"]),
                  updates),
           Obj1("updatedAt", Time(s.now)))

UpdateDoc(s, doc, updates) ==
    Spread(Spread(doc, updates), Obj1("updatedAt", Time(s.now)))

\* (mutant) update() that writes the updates as a new document when get() found none
UpdateFromUpserts(s, doc, updates) ==
    IF doc = Null THEN PutDoc(s, UpdateDoc(s, EmptyObj, updates))
    ELSE PutDoc(s, UpdateDoc(s, doc, updates))

UpdateFrom(s, doc, updates) ==
    IF doc = Null THEN Thrown(s, "Document not found")
    ELSE PutDoc(s, UpdateDoc(s, doc, updates))

Update(s, id, updates) == UpdateFrom(s, Get(s, id), updates)

\* delete(id), from the document its get() read
DeleteFrom(s, doc) ==
    IF doc = Null THEN Thrown(s, "Document not found")
    ELSE LET result == DbRemove(s.db, s.revSeq, doc)
         IN IF result.ok
            THEN Returned([s EXCEPT !.db = result.db, !.revSeq = @ + 1], Obj1("value", "true"))
            ELSE Thrown(s, result.name)

Delete(s, id) == DeleteFrom(s, Get(s, id))

\* getCurrentUser()
GetCurrentUser(s) ==
    LET userId == GetLocal(s.local, "currentUserId")
    IN IF Falsy(userId) THEN Null ELSE Get(s, userId)

\* currentUser?.organizationId
OrgOf(user) == IF user = Null THEN Undef ELSE Field(user, "organizationId")

---------------------------------------------------------------------------
(* The upsert coordinator: saveDailyRecord and saveAttendance *)

\* find({selector, limit: 1}): no document, or one of the matching documents
Limit1(found) == IF found = {} THEN {<<>>} ELSE {<<doc>> : doc \in found}

DailySelector(data) ==
    ("type" :> "daily_record") @@ ("userId" :> Field(data, "userId"))
      @@ ("recordDate" :> Field(data, "recordDate"))

DailyOrg(s, data) ==
    IF Truthy(data, "organizationId") THEN data["organizationId"]
    ELSE OrgOf(GetCurrentUser(s))

\* saveDailyRecord(data) after its find returned `existing`
SaveDailyRecordFound(s, data, organizationId, existing) ==
    LET candidate == Spread(data, Obj1("organizationId", organizationId))
    IN IF Len(existing) > 0
       THEN Update(s, existing[1]["_id"], candidate)
       ELSE Save(s, "daily_record", candidate)

AttendanceSelector(data) ==
    ("type" :> "attendance") @@ ("userId" :> Field(data, "userId"))
      @@ ("attendanceDate" :> Field(data, "attendanceDate"))

AttendanceOrg(s, data) == OrgOf(GetCurrentUser(s))

\* saveAttendance(data) after its find returned `existing`
SaveAttendanceFound(s, data, organizationId, existing) ==
    LET candidate == Spread(data, Obj1("organizationId", organizationId))
    IN IF Len(existing) > 0
       THEN Update(s, existing[1]["_id"], candidate)
       ELSE Save(s, "attendance", candidate)

---------------------------------------------------------------------------
(* Inputs of the calls *)

Users == {"user_1", "user_2"}
UpsertDates == {Dates[1], Dates[2]}

\* The store right after registration: one user of organization ORG1
EmptyStore ==
    [db |-> EmptyObj, revSeq |-> 0, idSeq |-> 0, now |-> 1, local |-> EmptyObj]
Registered ==
    Save(EmptyStore, "user",
         ("userId" :> "admin") @@ ("organizationId" :> "ORG1") @@ ("role" :> "admin")).s

\* What a record form submits for a user and a date
FormFields ==
    { ("temperature" :> "36.5") @@ ("note" :> "n"),
      ("temperature" :> "37.0") @@ ("organizationId" :> "ORG2") }

DailyForms ==
    { Spread(("userId" :> u) @@ ("recordDate" :> d), f) :
        u \in Users, d \in UpsertDates, f \in FormFields }

AttendanceForms ==
    { Spread(("userId" :> u) @@ ("attendanceDate" :> d), f) :
        u \in Users, d \in UpsertDates,
        f \in {Obj1("status", "present"), ("status" :> "absent") @@ ("organizationId" :> "ORG2")} }

\* A stored record read back, its date edited, and submitted again
DailyEdits(d) ==
    { Spread(doc, Obj1("recordDate", x)) :
        doc \in DbFind(d, Obj1("type", "daily_record")), x \in UpsertDates }

AttendanceEdits(d) ==
    { Spread(doc, Obj1("attendanceDate", x)) :
        doc \in DbFind(d, Obj1("type", "attendance")), x \in UpsertDates }

---------------------------------------------------------------------------
(* Calls that run to completion before the next one starts *)

Idle == [p \in {} |-> Undef]
NoFile == Null

\* the notifier with no listener, its feed subscribed since update sequence `seq`
\* (db.changes({since: 'now', live: true})) and nothing delivered yet
Subscribed(seq) == [listeners |-> <<>>, since |-> seq, batch |-> <<>>, log |-> <<>>]

\* the WhaleAPI instance its constructor leaves: no token read yet, no refresh running
ApiUnused == [token |-> NullValue, refreshing |-> FALSE]

\* the index definitions createIndexes() declares, in its order
IndexDefs ==
    << "type", "type,organizationId", "type,userId", "type,userId,recordDate",
       "type,recordDate", "recordDate", "type,attendanceDate", "type,assessmentDate",
       "type,startDate", "createdAt" >>

AllIndexes == {IndexDefs[i] : i \in DOMAIN IndexDefs}

\* the manager after an init() that completed, createIndexes() having left `ix`
InitReady(ix) ==
    /\ initialized = TRUE
    /\ initializationPromise = 1
    /\ promises = <<[state |-> "resolved", pc |-> "done", i |-> Len(IndexDefs)]>>
    /\ handles = 1
    /\ indexes = ix
    /\ indexRuns = 1
    /\ subscriptions = 1
    /\ env = [PouchDB |-> TRUE, find |-> TRUE]
    /\ file = NoFile
    /\ api = ApiUnused
    /\ notifier = Subscribed(revSeq)

InitUnused == InitReady(AllIndexes)

Commit(r, op, arg) ==
    /\ db' = r.s.db
    /\ revSeq' = r.s.revSeq
    /\ idSeq' = r.s.idSeq
    /\ now' = r.s.now
    /\ local' = r.s.local
    /\ last' = [op |-> op, arg |-> arg, ok |-> r.ok, name |-> r.name, ret |-> r.ret]
    /\ UNCHANGED <<initVars, outside, task>>

CanWrite == revSeq <= MaxWrites

SaveDailyRecord ==
    /\ CanWrite
    /\ \E data \in DailyForms \cup DailyEdits(db) :
         \E existing \in Limit1(DbFind(db, DailySelector(data))) :
            Commit(SaveDailyRecordFound(Store, data, DailyOrg(Store, data), existing),
                   "saveDailyRecord", data)

SaveAttendance ==
    /\ CanWrite
    /\ \E data \in AttendanceForms \cup AttendanceEdits(db) :
         \E existing \in Limit1(DbFind(db, AttendanceSelector(data))) :
            Commit(SaveAttendanceFound(Store, data, AttendanceOrg(Store, data), existing),
                   "saveAttendance", data)

\* Time passes between two calls
Tick ==
    /\ now < MaxTime
    /\ Commit(Returned([Store EXCEPT !.now = @ + 1], Null), "tick", Null)

\* auth.js: login stores the user's document id, logout removes it
Login ==
    /\ Falsy(GetLocal(local, "currentUserId"))
    /\ \E u \in DbFind(db, Obj1("type", "user")) :
         Commit(Returned([Store EXCEPT !.local = SetLocal(@, now, "currentUserId", u["_id"])],
                         Null), "login", Null)

Logout ==
    /\ ~Falsy(GetLocal(local, "currentUserId"))
    /\ Commit(Returned([Store EXCEPT !.local = RemoveLocal(@, "currentUserId")], Null),
              "logout", Null)

\* After registration, with or without a session of the registered user
Sessions(s) ==
    {s.local} \cup {SetLocal(s.local, s.now, "currentUserId", u["_id"]) :
                      u \in DbFind(s.db, Obj1("type", "user"))}

InitRegisteredWith(ix) ==
    /\ db = Registered.db
    /\ revSeq = Registered.revSeq
    /\ idSeq = Registered.idSeq
    /\ now = 1
    /\ local \in Sessions(Registered)
    /\ last = [op |-> "none", arg |-> Null, ok |-> TRUE, name |-> "", ret |-> Null]
    /\ task = Idle
    /\ InitReady(ix)

InitRegistered == InitRegisteredWith(AllIndexes)

NextUpsert == SaveDailyRecord \/ SaveAttendance \/ Tick
SpecUpsert == InitRegistered /\ [][NextUpsert]_vars

---------------------------------------------------------------------------
(* Upsert coordinator: claims *)

RecordsFor(d, selector) == DbFind(d, selector)

\* C1: after any sequence of completed saveDailyRecord / saveAttendance calls, the
\* pair (userId, date) the last call targeted has exactly one document of its type.
C1_ExactlyOnePerPair ==
    /\ last.op = "saveDailyRecord" =>
          Cardinality(RecordsFor(db, DailySelector(last.arg))) = 1
    /\ last.op = "saveAttendance" =>
          Cardinality(RecordsFor(db, AttendanceSelector(last.arg))) = 1

\* C5: a saveDailyRecord call of form data for a pair that has one record leaves one
\* record for the pair, with the id of the record that was there, the values of this
\* call for the fields it supplies, and the stored values for every other field.
IsForm(data) == ~Has(data, "_id") /\ ~Has(data, "_rev") /\ ~Has(data, "type")
Kept(r, data) == (DOMAIN r) \ ((DOMAIN data) \cup {"_rev", "updatedAt", "organizationId"})

C5_Step ==
    (/\ last'.op = "saveDailyRecord"
     /\ IsForm(last'.arg)
     /\ Cardinality(RecordsFor(db, DailySelector(last'.arg))) = 1)
    => LET data == last'.arg
           r == CHOOSE x \in RecordsFor(db, DailySelector(data)) : TRUE
           after == RecordsFor(db', DailySelector(data))
       IN /\ last'.ok
          /\ Cardinality(after) = 1
          /\ \A x \in after :
               /\ x["_id"] = r["_id"]
               /\ \A k \in DOMAIN data : Field(x, k) = data[k]
               /\ \A k \in Kept(r, data) : Field(x, k) = r[k]
               /\ Clone(last'.ret) = x

---------------------------------------------------------------------------
(* Point operations: save, get, update, delete called directly *)

KnownIds(d) == (DOMAIN d) \cup {"custom_1"}

\* data of a save(): form fields, optionally with the envelope fields a caller may
\* pass (an id of its own, a stored document read back, a revision, a type, a
\* creation time, a key whose value is undefined)
SaveForms ==
    { ("userId" :> "user_1") @@ ("recordDate" :> Dates[1]) @@ ("temperature" :> "36.5"),
      ("userId" :> "user_1") @@ ("recordDate" :> Dates[2]) @@ ("note" :> Undef),
      ("userId" :> "user_2") @@ ("recordDate" :> Dates[1]) @@ ("createdAt" :> "t0"),
      ("userId" :> "user_2") @@ ("recordDate" :> Dates[2]) @@ ("type" :> "attendance") }

Typed(d) == {doc \in Docs(d) : Has(doc, "type")}

SaveArgs(d) ==
    { <<"daily_record", f>> : f \in SaveForms }
    \cup { <<"user", Spread(Obj1("temperature", "37.0"), Obj1("_id", id))>> : id \in KnownIds(d) }
    \cup { <<doc["type"], Spread(doc, Obj1("temperature", "37.0"))>> : doc \in Typed(d) }
    \cup { <<doc["type"], Spread(doc, Obj1("_rev", "0-stale"))>> : doc \in Typed(d) }

UpdateInputs ==
    { Obj1("temperature", "37.0"),
      Obj1("note", Undef),
      Obj1("_id", "custom_1"),
      ("type" :> "attendance") @@ ("createdAt" :> "t0"),
      Obj1("_rev", "0-stale") }

CanWriteCrud == revSeq <= MaxCrudWrites

SaveCall ==
    /\ CanWriteCrud
    /\ \E a \in SaveArgs(db) :
         Commit(Save(Store, a[1], a[2]), "save", Spread(a[2], Obj1("$type", a[1])))

UpdateCall ==
    /\ CanWriteCrud
    /\ \E id \in KnownIds(db), updates \in UpdateInputs :
         Commit(Update(Store, id, updates), "update", Spread(updates, Obj1("$id", id)))

DeleteCall ==
    /\ CanWriteCrud
    /\ \E id \in KnownIds(db) :
         Commit(Delete(Store, id), "delete", Obj1("$id", id))

NextCrud == SaveCall \/ UpdateCall \/ DeleteCall \/ Tick
SpecCrud == InitRegistered /\ [][NextCrud]_vars

\* C4: right after a save() that succeeded, get() of the returned document's id
\* returns the returned document: its id, its field values and its new revision.
C4_GetAfterSave ==
    (last.op = "save" /\ last.ok) =>
        LET got == Get(Store, last.ret["_id"])
        IN /\ got # Null
           /\ \A k \in (DOMAIN got) \cup (DOMAIN last.ret) :
                 Field(got, k) = Field(last.ret, k)

\* a save that overwrote a stored document read back by the caller
C4_Witness ==
    /\ last.op = "save"
    /\ last.ok
    /\ Has(last.arg, "_rev")
    /\ Get(Store, last.ret["_id"]) # Null
    /\ Get(Store, last.ret["_id"])["_rev"] = last.ret["_rev"]
    /\ last.ret["_rev"] # last.arg["_rev"]

Revisions(d) == {d[id].doc["_rev"] : id \in DOMAIN d}

\* C11: a save() that succeeds keeps data._id when data has one and otherwise assigns
\* an id the database never held; createdAt is data.createdAt when data has one and
\* the current time otherwise; updatedAt is the current time; the returned document
\* is the stored one and carries a revision the database had not assigned before.
C11_Step ==
    (last'.op = "save" /\ last'.ok) =>
        LET data == last'.arg
            ret == last'.ret
        IN /\ IF Truthy(data, "_id") THEN ret["_id"] = data["_id"]
              ELSE ret["_id"] \notin DOMAIN db
           /\ IF Truthy(data, "createdAt") THEN ret["createdAt"] = data["createdAt"]
              ELSE ret["createdAt"] = Time(now)
           /\ ret["updatedAt"] = Time(now)
           /\ ret["_rev"] \notin Revisions(db)
           /\ ret["_id"] \in Live(db')
           /\ db'[ret["_id"]].doc = Clone(ret)

C11_SaveStamps == [][C11_Step]_vars

\* a save without an id whose data carried a creation time of its own
C11_Witness ==
    /\ last.op = "save"
    /\ last.ok
    /\ ~Has(last.arg, "_id")
    /\ Field(last.arg, "createdAt") = "t0"
    /\ last.ret["createdAt"] = "t0"
    /\ last.ret["updatedAt"] # "t0"
    /\ last.ret["_id"] \in Live(db)

Protected == {"_id", "type", "createdAt"}

\* C13: an update(id, updates) that succeeds leaves the document under id with its
\* id, type and createdAt as they were, whatever updates contains; every other field
\* of updates has the value of updates, every other stored field keeps its value,
\* and updatedAt is the time of the write.
C13_Step ==
    (last'.op = "update" /\ last'.ok) =>
        LET id == last'.arg["$id"]
            updates == Without(last'.arg, "$id")
            before == db[id].doc
        IN /\ id \in Live(db')
           /\ LET after == db'[id].doc
              IN /\ \A k \in Protected : Field(after, k) = Field(before, k)
                 /\ after["updatedAt"] = Time(now)
                 /\ \A k \in (DOMAIN updates) \ (Protected \cup {"_rev", "updatedAt"}) :
                       Field(after, k) = updates[k]
                 /\ \A k \in (DOMAIN before) \ ((DOMAIN updates) \cup {"_rev", "updatedAt"}) :
                       Field(after, k) = before[k]

C13_UpdateKeepsEnvelope == [][C13_Step]_vars

\* C14: delete(id) returns true when the document existed and false when it did not,
\* and does not throw for a missing id; afterwards the id is not in the store.
C14_Step ==
    last'.op = "delete" =>
        /\ last'.ok
        /\ last'.ret = Obj1("value", IF last'.arg["$id"] \in Live(db) THEN "true" ELSE "false")
        /\ last'.arg["$id"] \notin Live(db')
        /\ last'.arg["$id"] \notin Live(db) => db' = db

C14_DeleteIdempotent == [][C14_Step]_vars

\* C16: update(id, updates) on an id that is not in the store fails with the
\* not-found error and leaves the database as it was.
C16_Step ==
    (last'.op = "update" /\ last'.arg["$id"] \notin Live(db)) =>
        /\ ~last'.ok
        /\ last'.name = "Document not found"
        /\ db' = db

C16_UpdateMissingFails == [][C16_Step]_vars

\* an update of an id that was deleted before failed; the tombstone is all there is
C16_Witness ==
    /\ last.op = "update"
    /\ ~last.ok
    /\ last.name = "Document not found"
    /\ last.arg["$id"] \in (DOMAIN db) \ Live(db)

\* what db.get(id) may answer: the document or not_found, or a failure of the
\* underlying storage
StorageErrors == {"unknown_error"}
DbGetOutcomes(d, id) ==
    {DbGet(d, id)} \cup {[ok |-> FALSE, name |-> e] : e \in StorageErrors}

GetCall ==
    /\ initialized
    /\ \E id \in KnownIds(db) :
         \E r \in DbGetOutcomes(db, id) :
            Commit([ok |-> GetOutcome(r).ok, name |-> GetOutcome(r).name,
                    ret |-> GetOutcome(r).ret, s |-> Store],
                   "get", ("$id" :> id) @@ ("$db" :> (IF r.ok THEN "ok" ELSE r.name)))

NextPoint == SaveCall \/ DeleteCall \/ GetCall
SpecPoint == InitRegistered /\ [][NextPoint]_vars

\* C15: get(id) of an id that is not in the store (never written, or deleted) returns
\* null without throwing; get(id) of a stored id returns the stored document; any
\* other error of the database is thrown to the caller.
C15_GetContract ==
    last.op = "get" =>
        IF last.arg["$db"] \in StorageErrors
        THEN ~last.ok /\ last.name = last.arg["$db"]
        ELSE /\ last.ok
             /\ last.ret = (IF last.arg["$id"] \in Live(db) THEN db[last.arg["$id"]].doc
                            ELSE Null)

\* null was returned for an id whose document had been deleted
C15_Witness ==
    /\ last.op = "get"
    /\ last.ok
    /\ last.ret = Null
    /\ last.arg["$id"] \in (DOMAIN db) \ Live(db)

---------------------------------------------------------------------------
(* saveDailyRecord as the asynchronous function it is: it suspends at each  *)
(* await (the read of the current user, the find, update()'s get, the put), *)
(* and another call may run in between.                                     *)

MaxRaceWrites == 2
MaxQueue == 2         \* requests the stored offline queue may hold
Tasks == {1, 2}

RaceForms ==
    { ("userId" :> "user_1") @@ ("recordDate" :> d) @@ ("temperature" :> t) :
        d \in UpsertDates, t \in {"36.5", "37.0"} }

NoTask == [pc |-> "idle"]
TaskDone(p, r, op, arg) ==
    /\ db' = r.s.db
    /\ revSeq' = r.s.revSeq
    /\ idSeq' = r.s.idSeq
    /\ now' = r.s.now
    /\ local' = r.s.local
    /\ last' = [op |-> op, arg |-> arg, ok |-> r.ok, name |-> r.name, ret |-> r.ret]
    /\ task' = [task EXCEPT ![p] = NoTask]
    /\ UNCHANGED <<initVars, outside>>

TaskStep(p, t) ==
    /\ task' = [task EXCEPT ![p] = t]
    /\ UNCHANGED <<storeVars, last, initVars, outside>>

\* the call: getCurrentUser() reads the scratch space and starts its get
UpsertStart(p) ==
    /\ task[p].pc = "idle"
    /\ revSeq <= MaxRaceWrites
    /\ \E data \in RaceForms :
         TaskStep(p, [pc |-> "user", data |-> data,
                      userId |-> GetLocal(local, "currentUserId")])

\* await getCurrentUser() resolves; db.find is started
UpsertUser(p) ==
    /\ task[p].pc = "user"
    /\ LET user == IF Falsy(task[p].userId) THEN Null ELSE Get(Store, task[p].userId)
           org == IF Truthy(task[p].data, "organizationId")
                  THEN task[p].data["organizationId"] ELSE OrgOf(user)
       IN TaskStep(p, [pc |-> "find", data |-> task[p].data,
                       candidate |-> Spread(task[p].data, Obj1("organizationId", org))])

\* await db.find resolves: update() starts its get, or save() builds the document
\* and starts its put
UpsertFind(p) ==
    /\ task[p].pc = "find"
    /\ \E existing \in Limit1(DbFind(db, DailySelector(task[p].data))) :
         IF Len(existing) > 0
         THEN TaskStep(p, [pc |-> "get", data |-> task[p].data,
                           candidate |-> task[p].candidate, id |-> existing[1]["_id"]])
         ELSE /\ task' = [task EXCEPT ![p] =
                    [pc |-> "put", data |-> task[p].data,
                     doc |-> SaveDoc(Store, "daily_record", task[p].candidate)]]
              /\ idSeq' = IdDrawn(Store, task[p].candidate).idSeq
              /\ UNCHANGED <<db, revSeq, now, local, last, initVars, outside>>

\* update(): await this.get(id) resolves; the merged document's put is started
UpsertGet(p) ==
    /\ task[p].pc = "get"
    /\ LET doc == Get(Store, task[p].id)
       IN IF doc = Null
          THEN TaskDone(p, Thrown(Store, "Document not found"), "saveDailyRecord",
                        task[p].data)
          ELSE TaskStep(p, [pc |-> "put", data |-> task[p].data,
                            doc |-> UpdateDoc(Store, doc, task[p].candidate)])

\* await db.put resolves
UpsertPut(p) ==
    /\ task[p].pc = "put"
    /\ TaskDone(p, PutDoc(Store, task[p].doc), "saveDailyRecord", task[p].data)

InitRace ==
    /\ db = Registered.db
    /\ revSeq = Registered.revSeq
    /\ idSeq = Registered.idSeq
    /\ now = 1
    /\ local \in Sessions(Registered)
    /\ last = [op |-> "none", arg |-> Null, ok |-> TRUE, name |-> "", ret |-> Null]
    /\ task = [p \in Tasks |-> NoTask]
    /\ InitUnused

NextRace ==
    \E p \in Tasks :
        UpsertStart(p) \/ UpsertUser(p) \/ UpsertFind(p) \/ UpsertGet(p) \/ UpsertPut(p)
SpecRace == InitRace /\ [][NextRace]_vars

\* C3: in every reachable state, whatever the interleaving of saveDailyRecord calls,
\* at most one daily_record document exists per (userId, recordDate).
C3_AtMostOnePerPair ==
    \A u \in Users, d \in DateSet :
        Cardinality(DbFind(db, ("type" :> "daily_record") @@ ("userId" :> u)
                                 @@ ("recordDate" :> d))) <= 1

---------------------------------------------------------------------------
(* update() as the asynchronous function it is: it suspends at its get and  *)
(* at its put, and another write may run in between.                        *)

\* update(id, updates): await this.get(id) resolves, the merged document is built
\* and its put is started
UpdateStart(p) ==
    /\ task[p].pc = "idle"
    /\ CanWriteCrud
    /\ \E id \in KnownIds(db), updates \in UpdateInputs :
         LET doc == Get(Store, id)
             arg == Spread(updates, Obj1("$id", id))
         IN IF doc = Null
            THEN TaskDone(p, Thrown(Store, "Document not found"), "update", arg)
            ELSE TaskStep(p, [pc |-> "put", data |-> arg,
                              doc |-> UpdateDoc(Store, doc, updates)])

\* update(): await this.db.put(updated) resolves
UpdateWrite(p) ==
    /\ task[p].pc = "put"
    /\ TaskDone(p, PutDoc(Store, task[p].doc), "update", task[p].data)

NextUpdate == SaveCall \/ \E p \in Tasks : UpdateStart(p) \/ UpdateWrite(p)
SpecUpdate == InitRace /\ [][NextUpdate]_vars

StaleFor(d, doc) ==
    /\ Truthy(doc, "_id") /\ Truthy(doc, "_rev")
    /\ doc["_id"] \in Live(d)
    /\ doc["_rev"] # d[doc["_id"]].doc["_rev"]

Refused == ~last'.ok /\ last'.name = "conflict" /\ db' = db

\* C12: a save() whose data names a stored document with another revision than the
\* stored one, and the put of an update() whose document was read before another
\* write to the same id, fail with a conflict and leave the database as it was.
C12_Step ==
    /\ (task' = task /\ last'.op = "save" /\ StaleFor(db, last'.arg)) => Refused
    /\ \A p \in Tasks :
          (task[p].pc = "put" /\ task'[p].pc = "idle" /\ StaleFor(db, task[p].doc))
          => (last'.op = "update" /\ Refused)

C12_StaleRevisionRefused == [][C12_Step]_vars

\* the put of an update that supplied no revision of its own was refused: the
\* document had been written again after this update read it
C12_Witness ==
    /\ last.op = "update"
    /\ ~last.ok
    /\ last.name = "conflict"
    /\ ~Has(last.arg, "_rev")
    /\ ~Has(last.arg, "_id")
    /\ last.arg["$id"] \in Live(db)
    /\ \A p \in Tasks : task[p].pc = "idle"

---------------------------------------------------------------------------
(* Initialization (v2.6.0): init() memoizes the promise of _performInit()  *)

Callers == {1, 2, 3}

\* initLocalStorage()
InitLocalStorage(l, t) ==
    LET l1 == IF Falsy(GetLocal(l, "settings"))
              THEN SetLocal(l, t, "settings", "defaults") ELSE l
    IN SetLocal(l1, t, "version", version)

CallerStep(p, t) ==
    /\ task' = [task EXCEPT ![p] = t]
    /\ last' = [op |-> "init", arg |-> Null, ok |-> TRUE, name |-> t.pc, ret |-> Null]

\* _performInit() up to its first await, and the assignment of its promise
PerformInitStart(p) ==
    LET id == Len(promises) + 1
    IN /\ id <= MaxInits
       /\ IF ~env.PouchDB
          THEN \* throws before a handle exists; the catch clears the memo, then init()
               \* stores the rejected promise
               /\ promises' = Append(promises, [state |-> "rejected", pc |-> "done", i |-> 0])
               /\ initializationPromise' = id
               /\ CallerStep(p, [pc |-> "await", promise |-> id])
               /\ UNCHANGED <<handles, indexRuns>>
          ELSE IF ~env.find
          THEN /\ handles' = handles + 1
               /\ promises' = Append(promises, [state |-> "rejected", pc |-> "done", i |-> 0])
               /\ initializationPromise' = id
               /\ CallerStep(p, [pc |-> "await", promise |-> id])
               /\ UNCHANGED indexRuns
          ELSE /\ handles' = handles + 1
               /\ indexRuns' = indexRuns + 1
               /\ promises' = Append(promises, [state |-> "pending", pc |-> "index", i |-> 1])
               /\ initializationPromise' = id
               /\ CallerStep(p, [pc |-> "await", promise |-> id])

\* (mutant) init() without the memoized promise: only the flag guards it
InitCallFlagOnly(p) ==
    /\ task[p].pc = "idle"
    /\ IF initialized
       THEN /\ CallerStep(p, [pc |-> "await", promise |-> 0])
            /\ UNCHANGED <<promises, initializationPromise, handles, indexRuns>>
       ELSE PerformInitStart(p)
    /\ UNCHANGED <<storeVars, initialized, indexes, subscriptions, outside>>

\* init()
InitCall(p) ==
    /\ task[p].pc = "idle"
    /\ IF initializationPromise # 0
       THEN /\ CallerStep(p, [pc |-> "await", promise |-> initializationPromise])
            /\ UNCHANGED <<promises, initializationPromise, handles, indexRuns>>
       ELSE IF initialized
       THEN /\ CallerStep(p, [pc |-> "await", promise |-> 0])
            /\ UNCHANGED <<promises, initializationPromise, handles, indexRuns>>
       ELSE PerformInitStart(p)
    /\ UNCHANGED <<storeVars, initialized, indexes, subscriptions, outside>>

\* (mutant) createIndexes() without the try/catch around db.createIndex: an error
\* leaves the loop and rejects the initialization
CreateIndexStepAborts(id) ==
    /\ id \in DOMAIN promises
    /\ promises[id].pc = "index"
    /\ \E created \in BOOLEAN :
         /\ indexes' = IF created THEN indexes \cup {IndexDefs[promises[id].i]}
                       ELSE indexes
         /\ last' = [op |-> "createIndex", arg |-> Null, ok |-> created, name |-> "",
                     ret |-> Null]
         /\ promises' = [promises EXCEPT ![id] =
               IF ~created THEN [@ EXCEPT !.pc = "done", !.state = "rejected"]
               ELSE IF @.i = Len(IndexDefs) THEN [@ EXCEPT !.pc = "finish"]
               ELSE [@ EXCEPT !.i = @ + 1]]
    /\ UNCHANGED <<storeVars, initialized, initializationPromise, handles, indexRuns,
                   subscriptions, outside, task>>

\* createIndexes(): one awaited db.createIndex settles; an error is logged and the
\* loop goes on
CreateIndexStep(id) ==
    /\ id \in DOMAIN promises
    /\ promises[id].pc = "index"
    /\ \E created \in BOOLEAN :
         /\ indexes' = IF created THEN indexes \cup {IndexDefs[promises[id].i]}
                       ELSE indexes
         /\ last' = [op |-> "createIndex", arg |-> Null, ok |-> created, name |-> "",
                     ret |-> Null]
    /\ promises' = [promises EXCEPT ![id] =
          IF @.i = Len(IndexDefs) THEN [@ EXCEPT !.pc = "finish"]
          ELSE [@ EXCEPT !.i = @ + 1]]
    /\ UNCHANGED <<storeVars, initialized, initializationPromise, handles, indexRuns,
                   subscriptions, outside, task>>

\* the rest of _performInit(): initLocalStorage, startChangeMonitoring, the flag
PerformInitFinish(id) ==
    /\ id \in DOMAIN promises
    /\ promises[id].pc = "finish"
    /\ local' = InitLocalStorage(local, now)
    /\ subscriptions' = subscriptions + 1
    /\ initialized' = TRUE
    /\ promises' = [promises EXCEPT ![id] = [@ EXCEPT !.pc = "done", !.state = "resolved"]]
    /\ last' = [op |-> "performInit", arg |-> Null, ok |-> TRUE, name |-> "", ret |-> Null]
    /\ notifier' = [notifier EXCEPT !.since = revSeq, !.batch = <<>>]
    /\ UNCHANGED <<db, revSeq, idSeq, now, initializationPromise, handles, indexes,
                   indexRuns, env, file, api, task>>

\* the caller's await of init() settles
InitSettled(p) ==
    /\ task[p].pc = "await"
    /\ IF task[p].promise = 0 THEN TRUE
       ELSE promises[task[p].promise].state # "pending"
    /\ LET ok == IF task[p].promise = 0 THEN TRUE
                 ELSE promises[task[p].promise].state = "resolved"
       IN /\ task' = [task EXCEPT ![p] = [pc |-> "done", ok |-> ok]]
          /\ last' = [op |-> "init", arg |-> Null, ok |-> ok, name |-> "done", ret |-> Null]
    /\ UNCHANGED <<storeVars, initVars, outside>>

\* the caller goes on and may call init() again
InitAgain(p) ==
    /\ task[p].pc = "done"
    /\ task' = [task EXCEPT ![p] = NoTask]
    /\ last' = [op |-> "init", arg |-> Null, ok |-> task[p].ok, name |-> "again", ret |-> Null]
    /\ UNCHANGED <<storeVars, initVars, outside>>

InitFresh ==
    /\ db = EmptyObj
    /\ revSeq = 0
    /\ idSeq = 0
    /\ now = 1
    /\ local = EmptyObj
    /\ last = [op |-> "none", arg |-> Null, ok |-> TRUE, name |-> "", ret |-> Null]
    /\ task = [p \in Callers |-> NoTask]
    /\ initialized = FALSE
    /\ initializationPromise = 0
    /\ promises = <<>>
    /\ handles = 0
    /\ indexes \in {{}, AllIndexes}    \* a first session, or one after an earlier session
    /\ indexRuns = 0
    /\ subscriptions = 0
    /\ env \in [PouchDB : BOOLEAN, find : BOOLEAN]
    /\ file = NoFile
    /\ api = ApiUnused
    /\ notifier = Subscribed(0)

NextInit ==
    \/ \E p \in Callers : InitCall(p) \/ InitSettled(p) \/ InitAgain(p)
    \/ \E id \in 1..MaxInits : CreateIndexStep(id) \/ PerformInitFinish(id)
SpecInit == InitFresh /\ [][NextInit]_vars

\* C2: with PouchDB and its find plugin loaded, however the init() calls interleave:
\* every caller awaits the one in-flight initialization, every call that settles has
\* succeeded, and one handle is created, createIndexes runs once and one change-feed
\* subscription is started.
C2_OneInitialization ==
    (env.PouchDB /\ env.find) =>
        /\ handles <= 1 /\ indexRuns <= 1 /\ subscriptions <= 1 /\ Len(promises) <= 1
        /\ \A p \in Callers :
              /\ task[p].pc = "await" =>
                    /\ task[p].promise = initializationPromise \/ task[p].promise = 0
                    /\ task[p].promise = 0 => initialized
              /\ task[p].pc = "done" =>
                    /\ task[p].ok
                    /\ initialized
                    /\ handles = 1 /\ indexRuns = 1 /\ subscriptions = 1

\* two callers were awaiting the same pending initialization, and both have returned
C2_Witness ==
    /\ env.PouchDB /\ env.find
    /\ \E p, q \in Callers :
          /\ p # q
          /\ task[p].pc = "done" /\ task[p].ok
          /\ task[q].pc = "done" /\ task[q].ok
    /\ \E r \in Callers : task[r].pc = "await" /\ task[r].promise # 0
    /\ handles = 1

---------------------------------------------------------------------------
(* A failed initialization (v2.6.0)                                        *)

\* C32: when an initialization fails, every caller awaiting it receives the error,
\* initialized stays false, the memoized promise is cleared, and a later init()
\* starts a new initialization instead of returning the failed one.
C32_Step ==
    /\ \A id \in DOMAIN promises' :
          promises'[id].state = "rejected" => (~initialized' /\ initializationPromise' # id)
    /\ \A p \in Callers :
          /\ (/\ task[p].pc = "await" /\ task'[p].pc = "done"
              /\ task[p].promise # 0
              /\ promises[task[p].promise].state = "rejected") => ~task'[p].ok
          /\ (/\ task[p].pc = "idle" /\ task'[p].pc = "await"
              /\ ~initialized
              /\ \A id \in DOMAIN promises : promises[id].state = "rejected")
             => task'[p].promise = Len(promises) + 1

C32_FailedInitRetried == [][C32_Step]_vars

---------------------------------------------------------------------------
(* Initialization (v2.4.0, v2.2.0): init() is guarded by the flag alone     *)

\* init() of v2.4.0 up to its first await: the flag is read, the handle is
\* created, createIndexes() is started; the flag is set after the await
InitFlagCall(p) ==
    /\ task[p].pc = "idle"
    /\ LET id == Len(promises) + 1
       IN IF initialized
          THEN /\ CallerStep(p, [pc |-> "await", promise |-> 0])
               /\ UNCHANGED <<promises, handles, indexRuns>>
          ELSE /\ id <= MaxInits
               /\ CallerStep(p, [pc |-> "await", promise |-> id])
               /\ IF ~env.PouchDB
                  THEN /\ promises' = Append(promises, [state |-> "rejected", pc |-> "done",
                                                        i |-> 0])
                       /\ UNCHANGED <<handles, indexRuns>>
                  ELSE IF ~env.find
                  THEN /\ handles' = handles + 1
                       /\ promises' = Append(promises, [state |-> "rejected", pc |-> "done",
                                                        i |-> 0])
                       /\ UNCHANGED indexRuns
                  ELSE /\ handles' = handles + 1
                       /\ indexRuns' = indexRuns + 1
                       /\ promises' = Append(promises, [state |-> "pending", pc |-> "index",
                                                        i |-> 1])
    /\ UNCHANGED <<storeVars, initialized, initializationPromise, indexes, subscriptions,
                   outside>>

\* await this.createIndexes() resolves: the ten createIndex calls of one run, taken
\* together (what one of them does when it fails is CreateIndexStep)
CreateIndexesRun(id) ==
    /\ id \in DOMAIN promises
    /\ promises[id].pc = "index"
    /\ indexes' = AllIndexes
    /\ promises' = [promises EXCEPT ![id] = [@ EXCEPT !.pc = "finish", !.i = Len(IndexDefs)]]
    /\ last' = [op |-> "createIndexes", arg |-> Null, ok |-> TRUE, name |-> "", ret |-> Null]
    /\ UNCHANGED <<storeVars, initialized, initializationPromise, handles, indexRuns,
                   subscriptions, outside, task>>

NextInitFlag ==
    \/ \E p \in Callers : InitFlagCall(p) \/ InitSettled(p) \/ InitAgain(p)
    \/ \E id \in 1..MaxInits : CreateIndexesRun(id) \/ PerformInitFinish(id)
SpecInitFlag == InitFresh /\ [][NextInitFlag]_vars

\* C31: with the flag-guarded init(), whatever the interleaving of the init()
\* calls, at most one PouchDB handle is created and at most one change-feed
\* subscription is started.
C31_FlagGuardOneHandle ==
    (env.PouchDB /\ env.find) => (handles <= 1 /\ subscriptions <= 1)

---------------------------------------------------------------------------
(* createIndexes: existing indexes, failing creations                      *)

\* C29: with PouchDB and its find plugin loaded, every db.createIndex of
\* createIndexes() that returns leaves the indexes that existed and the one it
\* names (nothing changes when it existed already, in a later session); one that
\* fails changes nothing, the loop goes on to the next definition, and no
\* initialization is rejected.
C29_Step ==
    (env.PouchDB /\ env.find) =>
        /\ \A id \in DOMAIN promises' : promises'[id].state # "rejected"
        /\ \A id \in DOMAIN promises :
              (promises[id].pc = "index" /\ promises'[id] # promises[id]) =>
                 LET i == promises[id].i
                 IN /\ last'.op = "createIndex"
                    /\ indexes' = IF last'.ok THEN indexes \cup {IndexDefs[i]} ELSE indexes
                    /\ IndexDefs[i] \in indexes => indexes' = indexes
                    /\ promises'[id].state = "pending"
                    /\ IF i < Len(IndexDefs)
                       THEN promises'[id].pc = "index" /\ promises'[id].i = i + 1
                       ELSE promises'[id].pc = "finish"

C29_IndexesIdempotent == [][C29_Step]_vars

\* an initialization that completed although creating the first index failed: the
\* first index is missing, the last one exists
C29_Witness ==
    /\ env.PouchDB /\ env.find
    /\ initialized
    /\ \E p \in Callers : task[p].pc = "done" /\ task[p].ok
    /\ IndexDefs[1] \notin indexes
    /\ IndexDefs[Len(IndexDefs)] \in indexes

---------------------------------------------------------------------------
(* Backup, import and reset *)

\* the sequences that list every element of S once (allDocs lists the rows by id)
Listings(S) ==
    {q \in [1..Cardinality(S) -> S] : \A i, j \in 1..Cardinality(S) : q[i] = q[j] => i = j}

\* backup(): {version, timestamp, documents: allDocs.rows.map(row => row.doc)}
BackupOf(s, documents) ==
    ("version" :> version) @@ ("timestamp" :> Time(s.now)) @@ ("documents" :> documents)

\* JSON.stringify(backup) written to the file, JSON.parse(text) on import: a key
\* whose value is undefined is not written
JsonRoundTrip(backup) ==
    IF Has(backup, "documents")
    THEN Spread(backup, Obj1("documents",
                  [i \in DOMAIN backup["documents"] |-> Clone(backup["documents"][i])]))
    ELSE backup

\* (mutant) the loop of import() leaving at the first put that fails
RECURSIVE ImportLoopAborts(_, _, _, _)
ImportLoopAborts(s, documents, i, imported) ==
    IF i > Len(documents) THEN [s |-> s, imported |-> imported]
    ELSE LET result == DbPut(s.db, s.revSeq, documents[i])
         IN IF result.ok
            THEN ImportLoopAborts([s EXCEPT !.db = result.db, !.revSeq = @ + 1],
                                  documents, i + 1, imported + 1)
            ELSE [s |-> s, imported |-> imported]

\* (mutant) an import that stores a document the database refused over the stored one
RECURSIVE ImportLoopReplaces(_, _, _, _)
ImportLoopReplaces(s, documents, i, imported) ==
    IF i > Len(documents) THEN [s |-> s, imported |-> imported]
    ELSE LET result == DbPut(s.db, s.revSeq, documents[i])
         IN IF result.ok
            THEN ImportLoopReplaces([s EXCEPT !.db = result.db, !.revSeq = @ + 1],
                                    documents, i + 1, imported + 1)
            ELSE IF Truthy(documents[i], "_id")
            THEN ImportLoopReplaces(
                    [s EXCEPT !.db = Spread(@, Obj1(documents[i]["_id"],
                                                    [deleted |-> FALSE, doc |-> documents[i]]))],
                    documents, i + 1, imported)
            ELSE ImportLoopReplaces(s, documents, i + 1, imported)

\* the loop of import(): one put per document, a failure is logged and skipped
RECURSIVE ImportLoop(_, _, _, _)
ImportLoop(s, documents, i, imported) ==
    IF i > Len(documents) THEN [s |-> s, imported |-> imported]
    ELSE LET result == DbPut(s.db, s.revSeq, documents[i])
         IN IF result.ok
            THEN ImportLoop([s EXCEPT !.db = result.db, !.revSeq = @ + 1],
                            documents, i + 1, imported + 1)
            ELSE ImportLoop(s, documents, i + 1, imported)

\* import(file), v2.6.0
Import(s, text) ==
    LET backup == JsonRoundTrip(text)
    IN IF ~Has(backup, "documents")
       THEN Thrown(s, "invalid backup file")
       ELSE LET r == ImportLoop(s, backup["documents"], 1, 0)
            IN Returned(r.s, ("imported" :> r.imported)
                               @@ ("total" :> Len(backup["documents"])))

\* reset(): the database is destroyed, the prefixed keys are removed, init() runs again
ScratchNames ==
    {"currentUserId", "settings", "version", "sessionStart", "isAuthenticated",
     "lastActivity", "authToken", "requestQueue"}
StartsWithPrefix(key) == \E name \in ScratchNames : key = prefix \o name
RemovePrefixed(l) == [key \in {k \in DOMAIN l : ~StartsWithPrefix(k)} |-> l[key]]
ResetStore(s) ==
    [s EXCEPT !.db = EmptyObj, !.local = InitLocalStorage(RemovePrefixed(s.local), s.now)]

\* documents of snapshots that did not come from this store
WellFormedDoc == ("_id" :> "user_9") @@ ("type" :> "user") @@ ("userId" :> "u9")
TypelessDoc == ("_id" :> "doc_b") @@ ("name" :> "x")
SnapshotDocs ==
    { WellFormedDoc,
      TypelessDoc,
      ("type" :> "user") @@ ("userId" :> "u8"),
      ("_id" :> "user_7") @@ ("type" :> "user") @@ ("_rev" :> "7-foreign"),
      ("_id" :> "user_1") @@ ("type" :> "user") @@ ("userId" :> "other") }

Snapshots ==
    { BackupOf(EmptyStore, q) :
        q \in UNION { Listings(S) : S \in {T \in SUBSET SnapshotDocs : Cardinality(T) <= MaxImport} } }

CanImport == revSeq <= MaxCrudWrites + 1

\* allDocs lists the rows in the order of their ids: one fixed listing of the set
RowsOf(d) == CHOOSE q \in Listings(AllDocs(d)) : TRUE

Backup ==
    /\ file' = BackupOf(Store, RowsOf(db))
    /\ last' = [op |-> "backup", arg |-> Null, ok |-> TRUE, name |-> "", ret |-> Null]
    /\ UNCHANGED <<storeVars, initVars, env, notifier, api, task>>

ImportFile ==
    /\ file # NoFile
    /\ CanImport
    /\ Commit(Import(Store, file), "import", file)

ImportSnapshot ==
    /\ CanImport
    /\ \E snapshot \in Snapshots : Commit(Import(Store, snapshot), "import", snapshot)

Reset ==
    /\ handles <= MaxResets
    /\ db' = ResetStore(Store).db
    /\ local' = ResetStore(Store).local
    /\ handles' = handles + 1
    /\ indexRuns' = indexRuns + 1
    /\ promises' = Append(promises, [state |-> "resolved", pc |-> "done",
                                     i |-> Len(IndexDefs)])
    /\ initializationPromise' = Len(promises) + 1
    /\ last' = [op |-> "reset", arg |-> Null, ok |-> TRUE, name |-> "", ret |-> Null]
    /\ notifier' = [notifier EXCEPT !.since = revSeq, !.batch = <<>>]
    /\ UNCHANGED <<revSeq, idSeq, now, initialized, indexes, subscriptions, env, file, api,
                   task>>

\* files that are not what backup() writes: one without the version, one without
\* the documents, one with a top-level field more
SnapshotShapes ==
    LET snapshot == BackupOf(EmptyStore, <<WellFormedDoc>>)
    IN { Without(snapshot, "version"),
         Without(snapshot, "documents"),
         Without(Without(snapshot, "version"), "documents"),
         Spread(snapshot, Obj1("exportedBy", "other")) }

ImportShape ==
    /\ CanImport
    /\ \E snapshot \in SnapshotShapes : Commit(Import(Store, snapshot), "import", snapshot)

NextImport == SaveCall \/ Backup \/ Reset \/ ImportFile \/ ImportSnapshot \/ ImportShape
SpecImport == InitRegistered /\ [][NextImport]_vars

\* imports alone, into a store whose documents may have been deleted
NextRestore == ImportSnapshot \/ ImportShape \/ DeleteCall
SpecRestore == InitRegistered /\ [][NextRestore]_vars

DocsOf(documents) == {documents[i] : i \in DOMAIN documents}
NoRev(S) == {Without(doc, "_rev") : doc \in S}

\* C6: importing the snapshot that backup() exported, into an empty store, stores
\* every document of the snapshot with its field values (the revision apart), and
\* imported equals total.
C6_Step ==
    (/\ last'.op = "import"
     /\ file # NoFile
     /\ last'.arg = file
     /\ DOMAIN db = {})
    => /\ last'.ok
       /\ last'.ret["imported"] = last'.ret["total"]
       /\ NoRev(Docs(db')) = NoRev(DocsOf(file["documents"]))

C6_ExportImportRoundTrip == [][C6_Step]_vars

\* C10: importing a snapshot of one well-formed document and one document without a
\* type, into a store that has neither id, returns imported = 1 and total = 2, the
\* well-formed document can be read back and the other one is not stored.
C10_Step ==
    (/\ last'.op = "import"
     /\ Has(last'.arg, "documents")
     /\ DocsOf(last'.arg["documents"]) = {WellFormedDoc, TypelessDoc}
     /\ WellFormedDoc["_id"] \notin DOMAIN db
     /\ TypelessDoc["_id"] \notin DOMAIN db)
    => /\ last'.ok
       /\ last'.ret["imported"] = 1
       /\ last'.ret["total"] = 2
       /\ Get([db |-> db'], WellFormedDoc["_id"]) # Null
       /\ Get([db |-> db'], TypelessDoc["_id"]) = Null

C10_TypelessSkipped == [][C10_Step]_vars

---------------------------------------------------------------------------
(* What a snapshot holds                                                   *)

\* the keys the application keeps in the scratch space
LocalKeys == {"currentUserId", "settings", "version"}

\* C21: the snapshot backup() writes holds a format version, a timestamp, every
\* document of the store, and every entry of the prefixed scratch space.
C21_Step ==
    last'.op = "backup" =>
        /\ Has(file', "version")
        /\ Has(file', "timestamp")
        /\ Has(file', "documents")
        /\ DocsOf(file'["documents"]) = Docs(db)
        /\ \A key \in LocalKeys :
              Has(local, prefix \o key) =>
                 /\ Has(file', "localStorage")
                 /\ Has(file'["localStorage"], key)
                 /\ file'["localStorage"][key] = GetLocal(local, key)

C21_SnapshotComplete == [][C21_Step]_vars

---------------------------------------------------------------------------
\* C22: import fails, before any put and leaving the store as it was, when the file
\* lacks the format version or lacks the documents; a file that has both is
\* accepted whatever other top-level fields it has.
C22_Step ==
    last'.op = "import" =>
        IF Has(last'.arg, "version") /\ Has(last'.arg, "documents")
        THEN last'.ok
        ELSE ~last'.ok /\ db' = db /\ revSeq' = revSeq

C22_RequiredFields == [][C22_Step]_vars

---------------------------------------------------------------------------
\* the documents of a file as import() reads them
Parsed(text) == JsonRoundTrip(text)["documents"]

\* document i of the snapshot is one the database takes whatever was put before it:
\* its id is not in the store and no other document of the snapshot has it
TakenAlone(d, documents, i) ==
    /\ Truthy(documents[i], "_id")
    /\ ~Truthy(documents[i], "_rev")
    /\ documents[i]["_id"] \notin DOMAIN d
    /\ \A j \in DOMAIN documents :
          Truthy(documents[j], "_id") /\ documents[j]["_id"] = documents[i]["_id"] => j = i

\* C23: import puts every document of the snapshot whatever happened to the ones
\* before it, and returns total = the number of documents of the snapshot and
\* imported = the number of puts that succeeded, 0 <= imported <= total; a put
\* that fails never makes import fail.
C23_Step ==
    (last'.op = "import" /\ Has(last'.arg, "documents")) =>
        LET documents == Parsed(last'.arg)
        IN /\ last'.ok
           /\ last'.ret["total"] = Len(documents)
           /\ last'.ret["imported"] = revSeq' - revSeq
           /\ last'.ret["imported"] \in 0..last'.ret["total"]
           /\ \A i \in DOMAIN documents :
                 TakenAlone(db, documents, i) =>
                    /\ documents[i]["_id"] \in Live(db')
                    /\ Without(db'[documents[i]["_id"]].doc, "_rev") = documents[i]

---------------------------------------------------------------------------
\* C24: import ignores the revision a snapshot document carries: a document with a
\* revision of another installation, whose id the store never held, is stored as a
\* first revision and counted as imported.
C24_Step ==
    (last'.op = "import" /\ Has(last'.arg, "documents")) =>
        LET documents == Parsed(last'.arg)
        IN \A i \in DOMAIN documents :
              (/\ Truthy(documents[i], "_id")
               /\ Truthy(documents[i], "_rev")
               /\ TakenAlone(db, [j \in DOMAIN documents |-> Without(documents[j], "_rev")], i))
              => /\ documents[i]["_id"] \in Live(db')
                 /\ last'.ret["imported"] >= 1

C24_ForeignRevisionInserted == [][C24_Step]_vars

---------------------------------------------------------------------------
(* Retention: cleanOldData (v2.6.0)                                        *)

\* (mutant) the selector with $lte in place of $lt
OlderThanInclusive(doc, cutoffStr) ==
    /\ Has(doc, "type") /\ doc["type"] = "daily_record"
    /\ Has(doc, "recordDate") /\ DateLe(doc["recordDate"], cutoffStr)

\* selector {type: 'daily_record', recordDate: {$lt: cutoffStr}}
OlderThan(doc, cutoffStr) ==
    /\ Has(doc, "type") /\ doc["type"] = "daily_record"
    /\ Has(doc, "recordDate") /\ DateLt(doc["recordDate"], cutoffStr)

\* (mutant) the loop leaving before the last document found
RECURSIVE RemoveLoopSkipsLast(_, _, _, _)
RemoveLoopSkipsLast(s, docs, i, deleted) ==
    IF i >= Len(docs) THEN Returned(s, Obj1("deleted", deleted))
    ELSE LET result == DbRemove(s.db, s.revSeq, docs[i])
         IN IF result.ok
            THEN RemoveLoopSkipsLast([s EXCEPT !.db = result.db, !.revSeq = @ + 1],
                                     docs, i + 1, deleted + 1)
            ELSE Thrown(s, result.name)

\* for (const doc of result.docs) { await this.db.remove(doc); deleted++; }
\* a remove that fails throws out of the loop
RECURSIVE RemoveLoop(_, _, _, _)
RemoveLoop(s, docs, i, deleted) ==
    IF i > Len(docs) THEN Returned(s, Obj1("deleted", deleted))
    ELSE LET result == DbRemove(s.db, s.revSeq, docs[i])
         IN IF result.ok
            THEN RemoveLoop([s EXCEPT !.db = result.db, !.revSeq = @ + 1],
                            docs, i + 1, deleted + 1)
            ELSE Thrown(s, result.name)

\* cleanOldData(days), cutoffStr being the date `days` days before today
CleanOldData(s, cutoffStr) ==
    LET found == {doc \in Docs(s.db) : OlderThan(doc, cutoffStr)}
    IN RemoveLoop(s, CHOOSE q \in Listings(found) : TRUE, 1, 0)

CleanOldDataCall ==
    /\ initialized
    /\ \E cutoffStr \in DateSet :
        Commit(CleanOldData(Store, cutoffStr), "cleanOldData", Obj1("cutoffStr", cutoffStr))

NextClean == SaveCall \/ UpdateCall \/ Tick \/ CleanOldDataCall
SpecClean == InitRegistered /\ [][NextClean]_vars

\* C7: a cleanOldData call leaves every entry of the database as it was, except the
\* daily_record documents whose recordDate is before the cutoff: no document of
\* another type and no daily_record dated on or after the cutoff is deleted or changed.
C7_Step ==
    last'.op = "cleanOldData" =>
        \A id \in DOMAIN db :
            (\/ id \notin Live(db)
             \/ Field(db[id].doc, "type") # "daily_record"
             \/ ~DateLt(Field(db[id].doc, "recordDate"), last'.arg["cutoffStr"]))
            => (id \in DOMAIN db' /\ db'[id] = db[id])

C7_CleanKeepsTheRest == [][C7_Step]_vars

\* a clean-up deleted a record and left a record dated on the cutoff, a record-dated
\* document of another type, and the user
C7_Witness ==
    /\ last.op = "cleanOldData"
    /\ last.ok
    /\ last.ret["deleted"] >= 1
    /\ \E doc \in Docs(db) :
          /\ Field(doc, "type") = "daily_record"
          /\ Field(doc, "recordDate") = last.arg["cutoffStr"]
    /\ \E doc \in Docs(db) : Field(doc, "type") = "user"

---------------------------------------------------------------------------
(* Range queries: getDailyRecords                                          *)

\* selector {type: 'daily_record', userId, recordDate: {$gte: startDate, $lte: endDate}}
InRange(doc, userId, startDate, endDate) ==
    /\ Has(doc, "type") /\ doc["type"] = "daily_record"
    /\ Has(doc, "userId") /\ doc["userId"] = userId
    /\ Has(doc, "recordDate")
    /\ DateLe(startDate, doc["recordDate"]) /\ DateLe(doc["recordDate"], endDate)

FindRange(d, userId, startDate, endDate) ==
    {doc \in Docs(d) : InRange(doc, userId, startDate, endDate)}

\* the orders a sort by recordDate descending can give
SortedDesc(S) ==
    {q \in Listings(S) :
        \A i, j \in DOMAIN q : i < j => DateLe(q[j]["recordDate"], q[i]["recordDate"])}

\* db.find with sort [{recordDate: 'desc'}]: the find plugin sorts only along an
\* index on the sort field and raises when the database has none
CanSort(ix, field) == field \in ix

\* getDailyRecords(userId, startDate, endDate), v2.6.0: the results it may return,
\* with the path taken
GetDailyRecords(d, ix, userId, startDate, endDate) ==
    IF CanSort(ix, "recordDate")
    THEN {[path |-> "indexed", docs |-> q] :
            q \in SortedDesc(FindRange(d, userId, startDate, endDate))}
    ELSE {[path |-> "caught", docs |-> <<>>]}

\* the same call in v2.4.0: the indexed find names the index on (type, userId,
\* recordDate) and may be rejected; the catch repeats the find without a sort and
\* sorts the documents itself
GetDailyRecordsFallback(d, ix, userId, startDate, endDate) ==
    (IF "type,userId,recordDate" \in ix
     THEN {[path |-> "indexed", docs |-> q] :
             q \in SortedDesc(FindRange(d, userId, startDate, endDate))}
     ELSE {})
    \cup {[path |-> "fallback", docs |-> q] :
             q \in SortedDesc(FindRange(d, userId, startDate, endDate))}

QueryArg(userId, startDate, endDate) ==
    ("userId" :> userId) @@ ("startDate" :> startDate) @@ ("endDate" :> endDate)

GetDailyRecordsCall ==
    /\ initialized
    /\ \E userId \in Users, startDate \in DateSet, endDate \in DateSet :
        \E r \in GetDailyRecords(db, indexes, userId, startDate, endDate) :
            Commit([ok |-> TRUE, name |-> r.path, ret |-> Obj1("docs", r.docs), s |-> Store],
                   "getDailyRecords", QueryArg(userId, startDate, endDate))

GetDailyRecordsFallbackCall ==
    /\ initialized
    /\ \E userId \in Users, startDate \in DateSet, endDate \in DateSet :
        \E r \in GetDailyRecordsFallback(db, indexes, userId, startDate, endDate) :
            Commit([ok |-> TRUE, name |-> r.path, ret |-> Obj1("docs", r.docs), s |-> Store],
                   "getDailyRecords_v2.4.0", QueryArg(userId, startDate, endDate))

\* createIndexes() logs a failed createIndex and goes on: the index on recordDate, or
\* every index, may be missing after init()
IndexOutcomes == {AllIndexes, AllIndexes \ {"recordDate"}, {}}

InitQuery == \E ix \in IndexOutcomes : InitRegisteredWith(ix)
RecordSaved == CanWriteCrud /\ SaveDailyRecord
NextQuery == RecordSaved \/ DeleteCall \/ GetDailyRecordsCall \/ GetDailyRecordsFallbackCall
SpecQuery == InitQuery /\ [][NextQuery]_vars

IsQuery(op) == op \in {"getDailyRecords", "getDailyRecords_v2.4.0"}
Returned_docs == {last.ret["docs"][i] : i \in DOMAIN last.ret["docs"]}

\* C8: a getDailyRecords call whose index-assisted find raised returns the documents
\* the find returns when it succeeds.
C8_FallbackEquivalence ==
    (IsQuery(last.op) /\ last.name # "indexed") =>
        Returned_docs = FindRange(db, last.arg["userId"], last.arg["startDate"],
                                  last.arg["endDate"])

\* C9: getDailyRecords(userId, startDate, endDate) of v2.6.0 returns every stored
\* daily_record of userId dated within [startDate, endDate], each once, nothing
\* else, by recordDate descending.
C9_ExactRangeDescending ==
    last.op = "getDailyRecords" =>
        LET docs == last.ret["docs"]
        IN /\ \A doc \in Docs(db) :
                (/\ Field(doc, "type") = "daily_record"
                 /\ Field(doc, "userId") = last.arg["userId"]
                 /\ DateLe(last.arg["startDate"], Field(doc, "recordDate"))
                 /\ DateLe(Field(doc, "recordDate"), last.arg["endDate"]))
                <=> (\E i \in DOMAIN docs : docs[i] = doc)
           /\ \A i \in DOMAIN docs : docs[i] \in Docs(db)
           /\ \A i, j \in DOMAIN docs :
                i < j => /\ docs[i] # docs[j]
                         /\ DateLe(docs[j]["recordDate"], docs[i]["recordDate"])


---------------------------------------------------------------------------
(* The change notifier: changeListeners, the live feed started by          *)
(* startChangeMonitoring(), notifyListeners and the window broadcast       *)

ListenerIds == {"a", "b"}
\* the callbacks registered: one that handles the change, one that throws
Registrations == {<<"a", "records">>, <<"a", "throws">>, <<"b", "records">>}

\* (mutant) listeners kept in a list: a second registration under an id adds an entry
SetListenerAppends(listeners, id, callback) ==
    Append(listeners, [id |-> id, callback |-> callback])

\* changeListeners.set(id, callback): a Map keeps the place of a key it already has
SetListener(listeners, id, callback) ==
    IF \E i \in DOMAIN listeners : listeners[i].id = id
    THEN [i \in DOMAIN listeners |->
            IF listeners[i].id = id THEN [id |-> id, callback |-> callback]
            ELSE listeners[i]]
    ELSE Append(listeners, [id |-> id, callback |-> callback])

\* changeListeners.delete(id)
DeleteListener(listeners, id) == SelectSeq(listeners, LAMBDA l : l.id # id)

\* one callback(change) inside the try of notifyListeners
Called(l, change) ==
    [to |-> l.id, callback |-> l.callback, id |-> change.id, seq |-> change.seq,
     threw |-> (l.callback = "throws")]

\* (mutant) notifyListeners without the try/catch: the first exception ends the
\* forEach and leaves the change handler
RECURSIVE NotifyUntilThrow(_, _, _)
NotifyUntilThrow(listeners, change, i) ==
    IF i > Len(listeners) THEN <<>>
    ELSE IF Called(listeners[i], change).threw THEN <<Called(listeners[i], change)>>
    ELSE <<Called(listeners[i], change)>> \o NotifyUntilThrow(listeners, change, i + 1)

OnChangeUncaught(listeners, change) ==
    LET calls == NotifyUntilThrow(listeners, change, 1)
    IN IF \E i \in DOMAIN calls : calls[i].threw THEN calls
       ELSE Append(calls, [to |-> "window", callback |-> "whale:datachange",
                           id |-> change.id, seq |-> change.seq, threw |-> FALSE])

\* notifyListeners(change): every listener of the Map, in the order of the Map, each
\* call in its own try/catch
NotifyListeners(listeners, change) ==
    [i \in DOMAIN listeners |-> Called(listeners[i], change)]

\* the 'change' handler: notifyListeners(change), then window.dispatchEvent
OnChange(listeners, change) ==
    Append(NotifyListeners(listeners, change),
           [to |-> "window", callback |-> "whale:datachange",
            id |-> change.id, seq |-> change.seq, threw |-> FALSE])

\* the update sequence at which the database wrote the revision it holds for id
SeqOf(d, id, top) == CHOOSE n \in 1..top : Rev(n) = d[id].doc["_rev"]

\* what the live feed has not reported: the documents (tombstones too) whose latest
\* revision is later than the last sequence reported, each once, by sequence
Unreported(d, since, top) == {id \in DOMAIN d : SeqOf(d, id, top) > since}

\* (mutant) a feed that reports the changes it reads latest first
ChangesSinceLatestFirst(d, since, top) ==
    LET q == CHOOSE x \in Listings({id \in DOMAIN d : SeqOf(d, id, top) > since}) :
                \A i, j \in DOMAIN x : i < j => SeqOf(d, x[i], top) > SeqOf(d, x[j], top)
    IN [i \in DOMAIN q |-> [id |-> q[i], seq |-> SeqOf(d, q[i], top),
                            deleted |-> d[q[i]].deleted]]

\* db.changes since a sequence: the unreported documents in the order of the sequence
ChangesSince(d, since, top) ==
    LET q == CHOOSE x \in Listings(Unreported(d, since, top)) :
                \A i, j \in DOMAIN x : i < j => SeqOf(d, x[i], top) < SeqOf(d, x[j], top)
    IN [i \in DOMAIN q |-> [id |-> q[i], seq |-> SeqOf(d, q[i], top),
                            deleted |-> d[q[i]].deleted]]

Notified(op, arg) ==
    last' = [op |-> op, arg |-> arg, ok |-> TRUE, name |-> "", ret |-> Null]

AddChangeListener ==
    /\ initialized
    /\ \E r \in Registrations :
         /\ notifier' = [notifier EXCEPT !.listeners = SetListener(@, r[1], r[2])]
         /\ Notified("addChangeListener", ("$id" :> r[1]) @@ ("callback" :> r[2]))
    /\ UNCHANGED <<storeVars, initVars, env, file, api, task>>

RemoveChangeListener ==
    /\ initialized
    /\ \E id \in ListenerIds :
         /\ notifier' = [notifier EXCEPT !.listeners = DeleteListener(@, id)]
         /\ Notified("removeChangeListener", Obj1("$id", id))
    /\ UNCHANGED <<storeVars, initVars, env, file, api, task>>

\* the feed reads the changes after the last one it reported
FeedRead ==
    /\ subscriptions > 0
    /\ notifier.batch = <<>>
    /\ Unreported(db, notifier.since, revSeq) # {}
    /\ notifier' = [notifier EXCEPT !.batch = ChangesSince(db, notifier.since, revSeq)]
    /\ Notified("changes", Null)
    /\ UNCHANGED <<storeVars, initVars, env, file, api, task>>

\* the feed emits the next change it read: the 'change' handler runs
Deliver ==
    /\ notifier.batch # <<>>
    /\ notifier' = [notifier EXCEPT
          !.batch = Tail(@),
          !.since = Head(notifier.batch).seq,
          !.log = @ \o OnChange(notifier.listeners, Head(notifier.batch))]
    /\ Notified("change", Obj1("$id", Head(notifier.batch).id))
    /\ UNCHANGED <<storeVars, initVars, env, file, api, task>>

\* the writes whose changes the feed reports
SaveNotified ==
    /\ CanWriteCrud
    /\ \E type \in {"daily_record"}, data \in {Obj1("temperature", "36.5")} :
         Commit(Save(Store, type, data), "save", Spread(data, Obj1("$type", type)))

UpdateNotified ==
    /\ CanWriteCrud
    /\ \E id \in Live(db), updates \in {Obj1("temperature", "37.0")} :
         Commit(Update(Store, id, updates), "update", Spread(updates, Obj1("$id", id)))

DeleteNotified ==
    /\ CanWriteCrud
    /\ \E id \in Live(db) : Commit(Delete(Store, id), "delete", Obj1("$id", id))

NextNotify ==
    SaveNotified \/ UpdateNotified \/ DeleteNotified
      \/ AddChangeListener \/ RemoveChangeListener \/ FeedRead \/ Deliver
SpecNotify == InitRegistered /\ [][NextNotify]_vars

Broadcasts == {i \in DOMAIN notifier.log : notifier.log[i].to = "window"}
FeedDrained == notifier.batch = <<>> /\ Unreported(db, notifier.since, revSeq) = {}
\* the calls the change handler made in this step
NewCalls == SubSeq(notifier'.log, Len(notifier.log) + 1, Len(notifier'.log))

\* C17: once the feed has nothing left to report, every write that succeeded since
\* the feed was started has had its own whale:datachange broadcast: as many
\* broadcasts as revisions written.
C17_EveryWriteOneEvent ==
    FeedDrained => Cardinality(Broadcasts) = revSeq - Registered.revSeq

\* C18: the change handler calls every registered listener, throwing ones included,
\* then dispatches the broadcast, and touches neither the database nor the outcome
\* of a write.
C18_Step ==
    last'.op = "change" =>
        /\ Len(NewCalls) = Len(notifier.listeners) + 1
        /\ \A i \in DOMAIN notifier.listeners :
              (notifier.listeners[i].callback = "throws") =>
                  /\ NewCalls[i].threw
                  /\ \A j \in (i + 1)..Len(notifier.listeners) :
                        NewCalls[j].to = notifier.listeners[j].id
        /\ NewCalls[Len(NewCalls)].to = "window"
        /\ db' = db /\ revSeq' = revSeq

C18_ThrowingListenerContained == [][C18_Step]_vars

\* listener a threw on a change that listener b, registered after it, and the
\* broadcast still received
C18_Witness ==
    \E i \in DOMAIN notifier.log :
        /\ i + 2 \in DOMAIN notifier.log
        /\ notifier.log[i].to = "a" /\ notifier.log[i].threw
        /\ notifier.log[i + 1].to = "b" /\ notifier.log[i + 1].seq = notifier.log[i].seq
        /\ notifier.log[i + 2].to = "window" /\ notifier.log[i + 2].seq = notifier.log[i].seq

\* C19: changes are delivered in the order of their commits: every call of the
\* change handler carries a later update sequence than every call made before; and
\* one change goes to the listeners in the order of their registration, then to the
\* broadcast.
C19_Step ==
    last'.op = "change" =>
        /\ \A i \in DOMAIN notifier.log, j \in DOMAIN NewCalls :
              notifier.log[i].seq < NewCalls[j].seq
        /\ \A j, k \in DOMAIN NewCalls : NewCalls[j].seq = NewCalls[k].seq
        /\ [j \in DOMAIN NewCalls |-> NewCalls[j].to]
             = Append([i \in DOMAIN notifier.listeners |-> notifier.listeners[i].id],
                      "window")

C19_DeliveryFollowsCommits == [][C19_Step]_vars

\* two changes read in one batch were delivered, each to b and then a, the order in
\* which the two were registered
C19_Witness ==
    /\ Len(notifier.log) = 6
    /\ notifier.log[1].to = "b" /\ notifier.log[2].to = "a" /\ notifier.log[3].to = "window"
    /\ notifier.log[4].to = "b" /\ notifier.log[5].to = "a" /\ notifier.log[6].to = "window"
    /\ notifier.log[4].seq > notifier.log[1].seq
    /\ notifier.log[4].id # notifier.log[1].id
    /\ FeedDrained

Entries(listeners, id) == {i \in DOMAIN listeners : listeners[i].id = id}
Others(listeners, id) == SelectSeq(listeners, LAMBDA l : l.id # id)

\* C20: listeners are keyed by id.  After addChangeListener(id, callback) the id has
\* one listener, the callback just given, and after removeChangeListener(id) it has
\* none; either call leaves the listeners of the other ids as they were; and a
\* change is handed once to each id that is registered and to no other.
C20_Step ==
    /\ last'.op = "addChangeListener" =>
          /\ Cardinality(Entries(notifier'.listeners, last'.arg["$id"])) = 1
          /\ \A i \in Entries(notifier'.listeners, last'.arg["$id"]) :
                notifier'.listeners[i].callback = last'.arg["callback"]
          /\ Others(notifier'.listeners, last'.arg["$id"])
               = Others(notifier.listeners, last'.arg["$id"])
    /\ last'.op = "removeChangeListener" =>
          /\ Entries(notifier'.listeners, last'.arg["$id"]) = {}
          /\ Others(notifier'.listeners, last'.arg["$id"])
               = Others(notifier.listeners, last'.arg["$id"])
          /\ Entries(notifier.listeners, last'.arg["$id"]) = {} =>
                notifier'.listeners = notifier.listeners
    /\ last'.op = "change" =>
          \A id \in ListenerIds :
              Cardinality({j \in DOMAIN NewCalls : NewCalls[j].to = id})
                = (IF Entries(notifier.listeners, id) = {} THEN 0 ELSE 1)

C20_ListenersKeyedById == [][C20_Step]_vars

\* a was registered twice and b was removed: the latest change went once to a, to its
\* second callback, and not to b, which had received an earlier one
C20_Witness ==
    /\ last.op = "change"
    /\ \E i, j \in DOMAIN notifier.log :
          /\ i < j
          /\ notifier.log[i].to = "a" /\ notifier.log[i].callback = "records"
          /\ notifier.log[j].to = "a" /\ notifier.log[j].callback = "throws"
          /\ \E k \in DOMAIN notifier.log :
                notifier.log[k].to = "b" /\ notifier.log[k].seq = notifier.log[i].seq
          /\ ~\E k \in DOMAIN notifier.log :
                notifier.log[k].to = "b" /\ notifier.log[k].seq = notifier.log[j].seq
          /\ Cardinality({k \in DOMAIN notifier.log :
                            notifier.log[k].to = "a"
                            /\ notifier.log[k].seq = notifier.log[j].seq}) = 1
---------------------------------------------------------------------------
(* What a prune returns and leaves                                         *)

\* C25: a cleanOldData call that returns gives a deleted count equal to the number
\* of documents it removed, and leaves no daily_record dated before the cutoff.
C25_Step ==
    (last'.op = "cleanOldData" /\ last'.ok) =>
        /\ last'.ret["deleted"] = Cardinality(Live(db) \ Live(db'))
        /\ last'.ret["deleted"] = revSeq' - revSeq
        /\ \A doc \in Docs(db') :
              ~(/\ Field(doc, "type") = "daily_record"
                /\ DateLt(Field(doc, "recordDate"), last'.arg["cutoffStr"]))

C25_CleanCounts == [][C25_Step]_vars

\* a clean-up that removed two records
C25_Witness ==
    /\ last.op = "cleanOldData"
    /\ last.ok
    /\ last.ret["deleted"] = 2
    /\ Cardinality(DOMAIN db \ Live(db)) = 2

---------------------------------------------------------------------------
(* cleanOldData() as the asynchronous function it is: it suspends at its   *)
(* find and at every remove, and other calls may write in between.         *)

\* cleanOldData(days): await this.db.find(...) resolves with the documents that
\* match now
CleanStart(p) ==
    /\ task[p].pc = "idle"
    /\ \E cutoffStr \in DateSet :
         LET found == {doc \in Docs(db) : OlderThan(doc, cutoffStr)}
         IN TaskStep(p, [pc |-> "remove", cutoffStr |-> cutoffStr,
                         docs |-> CHOOSE q \in Listings(found) : TRUE, i |-> 1, deleted |-> 0])

\* one turn of the loop: await this.db.remove(doc) resolves or rejects; a rejection
\* leaves the loop and the function through the outer catch, which rethrows
CleanRemove(p) ==
    /\ task[p].pc = "remove"
    /\ LET t == task[p]
           arg == Obj1("cutoffStr", t.cutoffStr)
       IN IF t.i > Len(t.docs)
          THEN TaskDone(p, Returned(Store, Obj1("deleted", t.deleted)), "cleanOldData", arg)
          ELSE LET result == DbRemove(db, revSeq, t.docs[t.i])
               IN IF result.ok
                  THEN /\ db' = result.db
                       /\ revSeq' = revSeq + 1
                       /\ task' = [task EXCEPT ![p] = [t EXCEPT !.i = @ + 1,
                                                                !.deleted = @ + 1]]
                       /\ UNCHANGED <<idSeq, now, local, last, initVars, outside>>
                  ELSE TaskDone(p, Thrown(Store, result.name), "cleanOldData", arg)

NextPrune ==
    SaveCall \/ UpdateCall \/ DeleteCall \/ \E p \in Tasks : CleanStart(p) \/ CleanRemove(p)
SpecPrune == InitRace /\ [][NextPrune]_vars

\* C26: when the remove of one matching document fails during cleanOldData, the
\* call goes on with the remaining matches and returns its tally: every
\* cleanOldData call returns, and no document it found is left in the store at the
\* revision the call found it at.
C26_Step ==
    \A p \in Tasks :
        (task[p].pc = "remove" /\ task'[p].pc = "idle") =>
            /\ last'.op = "cleanOldData"
            /\ last'.ok
            /\ \A i \in DOMAIN task[p].docs :
                  LET doc == task[p].docs[i]
                  IN ~(doc["_id"] \in Live(db') /\ db'[doc["_id"]].doc = doc)

C26_PruneGoesOn == [][C26_Step]_vars

---------------------------------------------------------------------------
(* Organizations and users: createOrganization, createUser (storage.js),   *)
(* register and login (auth.js)                                            *)

\* allDocs({startkey: type + '_', endkey: type + '_\ufff0'}) filtered by type: the
\* documents of the type whose id save() generated
KeyRange(s, type) ==
    {doc \in AllDocs(s.db) : /\ Field(doc, "type") = type
                             /\ \E n \in 1..s.idSeq : doc["_id"] = GenId(type, n)}

\* rows.find(...): the first match in the order of the ids
FirstOf(s, type, found) ==
    IF found = {} THEN Null
    ELSE LET n == CHOOSE i \in 1..s.idSeq :
                     /\ \E doc \in found : doc["_id"] = GenId(type, i)
                     /\ \A j \in 1..(i - 1) : \A doc \in found : doc["_id"] # GenId(type, j)
         IN CHOOSE doc \in found : doc["_id"] = GenId(type, n)

\* getOrganization(organizationId)
GetOrganization(s, organizationId) ==
    IF organizationId = Undef \/ organizationId = "" THEN Null
    ELSE FirstOf(s, "organization",
                 {o \in KeyRange(s, "organization") :
                     Field(o, "organizationId") = organizationId})

\* getUserByCredentials(organizationId, userId)
GetUserByCredentials(s, organizationId, userId) ==
    IF organizationId = Undef \/ organizationId = "" \/ userId = Undef \/ userId = ""
    THEN Null
    ELSE FirstOf(s, "user",
                 {u \in KeyRange(s, "user") :
                     /\ Field(u, "organizationId") = organizationId
                     /\ Field(u, "userId") = userId})

\* createOrganization(data)
CreateOrganization(s, data) ==
    LET existing == GetOrganization(s, Field(data, "organizationId"))
    IN IF existing # Null THEN Returned(s, existing)
       ELSE Save(s, "organization",
                 ("organizationId" :> Field(data, "organizationId"))
                 @@ ("name" :> Field(data, "name")))

\* hashPassword(password)
HashPassword(password) == "sha256:" \o password

\* createUser(data)
CreateUser(s, data) ==
    LET currentUser == GetCurrentUser(s)
        organizationId == IF Truthy(data, "organizationId")
                          THEN data["organizationId"] ELSE OrgOf(currentUser)
        passwordHash == IF Truthy(data, "password") /\ ~Truthy(data, "passwordHash")
                        THEN HashPassword(data["password"]) ELSE Field(data, "passwordHash")
    IN IF organizationId = Undef \/ organizationId = ""
       THEN Thrown(s, "no organization id")
       ELSE Save(s, "user",
                 ("userId" :> Field(data, "userId"))
                 @@ ("organizationId" :> organizationId)
                 @@ ("name" :> Field(data, "name"))
                 @@ ("role" :> Field(data, "role"))
                 @@ ("passwordHash" :> passwordHash))

\* login(credentials), the fields being present: the session is started for the
\* first user of the pair when the password matches
LoginWith(s, organizationId, userId, password) ==
    LET user == GetUserByCredentials(s, organizationId, userId)
    IN IF GetOrganization(s, organizationId) = Null THEN Thrown(s, "organization not found")
       ELSE IF user = Null THEN Thrown(s, "user not found")
       ELSE IF HashPassword(password) # Field(user, "passwordHash")
       THEN Thrown(s, "wrong password")
       ELSE Returned([s EXCEPT !.local = SetLocal(@, s.now, "currentUserId", user["_id"])],
                     user)

\* register(formData)
Register(s, formData) ==
    IF ~Truthy(formData, "organizationId") \/ ~Truthy(formData, "organizationName")
    THEN Thrown(s, "organization fields missing")
    ELSE IF \/ ~Truthy(formData, "adminUserId") \/ ~Truthy(formData, "adminName")
            \/ ~Truthy(formData, "adminPassword")
    THEN Thrown(s, "administrator fields missing")
    ELSE IF /\ GetOrganization(s, formData["organizationId"]) # Null
            /\ GetUserByCredentials(s, formData["organizationId"],
                                    formData["adminUserId"]) # Null
    THEN Thrown(s, "already registered")
    ELSE LET organization ==
                 CreateOrganization(s, ("organizationId" :> formData["organizationId"])
                                       @@ ("name" :> formData["organizationName"]))
         IN IF ~organization.ok THEN organization
            ELSE LET user ==
                         CreateUser(organization.s,
                                    ("userId" :> formData["adminUserId"])
                                    @@ ("organizationId" :> formData["organizationId"])
                                    @@ ("name" :> formData["adminName"])
                                    @@ ("role" :> "admin")
                                    @@ ("passwordHash" :>
                                          HashPassword(formData["adminPassword"])))
                 IN IF ~user.ok THEN user
                    ELSE LET session == LoginWith(user.s, formData["organizationId"],
                                                  formData["adminUserId"],
                                                  formData["adminPassword"])
                         IN IF ~session.ok THEN session
                            ELSE Returned(session.s, user.ret)

Organizations == {"ORG1", "ORG2"}
UserIds == {"admin", "staff"}

RegisterForms ==
    { ("organizationId" :> o) @@ ("organizationName" :> "facility") @@ ("adminUserId" :> u)
      @@ ("adminName" :> "n") @@ ("adminPassword" :> "pw") :
        o \in Organizations, u \in UserIds }
    \cup { ("organizationId" :> "ORG1") @@ ("organizationName" :> "facility")
           @@ ("adminUserId" :> "admin") @@ ("adminPassword" :> "pw") }

CreateUserForms ==
    { ("userId" :> u) @@ ("organizationId" :> "ORG1") @@ ("name" :> "n")
      @@ ("role" :> "staff") @@ ("password" :> "pw") : u \in UserIds }
    \cup { ("userId" :> "staff") @@ ("name" :> "n") @@ ("role" :> "user") }

RegisterCall ==
    /\ CanWriteCrud
    /\ \E formData \in RegisterForms : Commit(Register(Store, formData), "register", formData)

CreateUserCall ==
    /\ CanWriteCrud
    /\ \E data \in CreateUserForms : Commit(CreateUser(Store, data), "createUser", data)

\* a fresh installation after init(): no document, the defaults in the scratch space
InitInstalled ==
    /\ db = EmptyStore.db
    /\ revSeq = 0
    /\ idSeq = 0
    /\ now = 1
    /\ local = InitLocalStorage(EmptyObj, 1)
    /\ last = [op |-> "none", arg |-> Null, ok |-> TRUE, name |-> "", ret |-> Null]
    /\ task = Idle
    /\ InitUnused

NextUsers == RegisterCall \/ CreateUserCall \/ Logout
SpecUsers == InitInstalled /\ [][NextUsers]_vars

\* C27: in every reachable state, after any sequence of register and createUser
\* calls, no two user documents have the same (organizationId, userId).
C27_UserPairUnique ==
    \A u1, u2 \in DbFind(db, Obj1("type", "user")) :
        (/\ Field(u1, "organizationId") = Field(u2, "organizationId")
         /\ Field(u1, "userId") = Field(u2, "userId"))
        => u1["_id"] = u2["_id"]

---------------------------------------------------------------------------
(* The organization of an upserted record                                  *)

\* the stored records the find of an upsert call matches
UpsertMatches(d, op, data) ==
    IF op = "saveDailyRecord" THEN DbFind(d, DailySelector(data))
    ELSE DbFind(d, AttendanceSelector(data))

\* C28: when saveDailyRecord or saveAttendance finds an existing record, the
\* updated record's organizationId is the candidate's when the candidate has one,
\* otherwise the current user's; when neither exists the stored organizationId is
\* kept.
C28_Step ==
    (/\ last'.op \in {"saveDailyRecord", "saveAttendance"}
     /\ last'.ok
     /\ UpsertMatches(db, last'.op, last'.arg) # {})
    => LET id == last'.ret["_id"]
           before == Field(db[id].doc, "organizationId")
           after == Field(db'[id].doc, "organizationId")
           user == OrgOf(GetCurrentUser(Store))
       IN IF Truthy(last'.arg, "organizationId") THEN after = last'.arg["organizationId"]
          ELSE IF user # Undef THEN after = user
          ELSE after = before

C28_UpsertOrganization == [][C28_Step]_vars

---------------------------------------------------------------------------
(* The scratch space called directly: setLocal, getLocal, removeLocal      *)

\* values a caller stores: an id, the empty string, undefined
LocalValues == {"user_1", "", Undef}

\* setLocal(key, value): true when the item was written, false when
\* localStorage.setItem threw (no room left) and the catch logged it
SetLocalCall ==
    /\ initialized
    /\ \E key \in LocalKeys, value \in LocalValues, written \in BOOLEAN :
         Commit(Returned([Store EXCEPT !.local = IF written
                                                 THEN SetLocal(@, now, key, value) ELSE @],
                         Obj1("value", IF written THEN "true" ELSE "false")),
                "setLocal", ("key" :> key) @@ ("value" :> value))

GetLocalCall ==
    /\ initialized
    /\ \E key \in LocalKeys :
         Commit(Returned(Store, Obj1("value", GetLocal(local, key))),
                "getLocal", Obj1("key", key))

RemoveLocalCall ==
    /\ initialized
    /\ \E key \in LocalKeys :
         Commit(Returned([Store EXCEPT !.local = RemoveLocal(@, key)], Obj1("value", "true")),
                "removeLocal", Obj1("key", key))

NextLocal == SetLocalCall \/ GetLocalCall \/ RemoveLocalCall \/ Tick
SpecLocal == InitInstalled /\ [][NextLocal]_vars

\* the items of the other keys are what they were
OtherKeysKept(key) ==
    \A other \in LocalKeys \ {key} :
        /\ Has(local', prefix \o other) = Has(local, prefix \o other)
        /\ Has(local, prefix \o other) => local'[prefix \o other] = local[prefix \o other]

\* C30: a setLocal(k, v) that stored makes getLocal(k) return v; getLocal(k) returns
\* null when k has no item (never set, or removed by removeLocal(k)); setLocal and
\* removeLocal of k leave every other key's item as it was; every item is kept
\* under the prefixed key and wraps {value, timestamp, version}.
C30_Step ==
    /\ last'.op = "setLocal" =>
          LET key == last'.arg["key"]
          IN IF last'.ret["value"] = "true"
             THEN /\ GetLocal(local', key) = last'.arg["value"]
                  /\ DOMAIN local' = DOMAIN local \cup {prefix \o key}
                  /\ OtherKeysKept(key)
             ELSE local' = local
    /\ last'.op = "removeLocal" =>
          /\ GetLocal(local', last'.arg["key"]) = NullValue
          /\ prefix \o last'.arg["key"] \notin DOMAIN local'
          /\ OtherKeysKept(last'.arg["key"])
    /\ last'.op = "getLocal" =>
          /\ local' = local
          /\ last'.ret["value"] =
                (IF Has(local, prefix \o last'.arg["key"])
                 THEN Field(local[prefix \o last'.arg["key"]], "value") ELSE NullValue)
    /\ \A full \in DOMAIN local' :
          /\ \E key \in LocalKeys : full = prefix \o key
          /\ DOMAIN local'[full] \subseteq {"value", "timestamp", "version"}
          /\ Has(local'[full], "timestamp")
          /\ Field(local'[full], "version") = version

---------------------------------------------------------------------------
(* reset() step by step, with init() calls, writes and the change feed     *)

ResetCallers == {1, 2}

\* no reset() is between its first and its last line
NoReset == \A p \in ResetCallers : task[p].pc \notin {"destroy", "resetAwait"}

\* reset() up to `await this.db.destroy()`
ResetStart(p) ==
    /\ task[p].pc = "idle"
    /\ NoReset
    /\ initialized
    /\ handles <= MaxResets
    /\ task' = [task EXCEPT ![p] = [pc |-> "destroy", handle |-> handles]]
    /\ last' = [op |-> "reset", arg |-> Null, ok |-> TRUE, name |-> "destroy", ret |-> Null]
    /\ UNCHANGED <<storeVars, initVars, outside>>

\* destroy() settles: the database is gone and its feed is cancelled; reset() removes
\* the prefixed keys, clears the flag and the memoized promise and calls init(), which
\* runs _performInit() up to its first await
ResetDestroyed(p) ==
    /\ task[p].pc = "destroy"
    /\ LET id == Len(promises) + 1
       IN /\ db' = ResetStore(Store).db
          /\ local' = RemovePrefixed(local)
          /\ subscriptions' = subscriptions - 1
          /\ notifier' = [notifier EXCEPT !.batch = <<>>]
          /\ initialized' = FALSE
          /\ handles' = handles + 1
          /\ indexRuns' = indexRuns + 1
          /\ promises' = Append(promises, [state |-> "pending", pc |-> "index", i |-> 1])
          /\ initializationPromise' = id
          /\ task' = [task EXCEPT ![p] = [pc |-> "resetAwait", promise |-> id,
                                          handle |-> task[p].handle]]
    /\ last' = [op |-> "reset", arg |-> Null, ok |-> TRUE, name |-> "init", ret |-> Null]
    /\ UNCHANGED <<revSeq, idSeq, now, indexes, env, file, api>>

\* reset()'s await of init() settles and reset() returns
ResetSettled(p) ==
    /\ task[p].pc = "resetAwait"
    /\ promises[task[p].promise].state # "pending"
    /\ task' = [task EXCEPT ![p] = [pc |-> "done",
                                    ok |-> promises[task[p].promise].state = "resolved"]]
    /\ last' = [op |-> "reset", arg |-> Null,
                ok |-> promises[task[p].promise].state = "resolved",
                name |-> "done", ret |-> Null]
    /\ UNCHANGED <<storeVars, initVars, outside>>

\* writes of the application, none of them while a reset() is running
\* an item of another application of the same origin
Foreign == Obj1("theme", Obj1("value", "dark"))

SaveQuiet == NoReset /\ SaveNotified
UpdateQuiet == NoReset /\ UpdateNotified

InitResettable ==
    /\ db = Registered.db
    /\ revSeq = Registered.revSeq
    /\ idSeq = Registered.idSeq
    /\ now = 1
    /\ local \in {Spread(l, other) : l \in Sessions(Registered), other \in {EmptyObj, Foreign}}
    /\ last = [op |-> "none", arg |-> Null, ok |-> TRUE, name |-> "", ret |-> Null]
    /\ task = [p \in ResetCallers |-> NoTask]
    /\ InitUnused

NextReset ==
    \/ \E p \in ResetCallers :
          \/ ResetStart(p) \/ ResetDestroyed(p) \/ ResetSettled(p)
          \/ InitCall(p) \/ InitSettled(p) \/ InitAgain(p)
    \/ \E id \in 1..(MaxResets + 1) : CreateIndexesRun(id) \/ PerformInitFinish(id)
    \/ SaveQuiet \/ UpdateQuiet
    \/ AddChangeListener \/ FeedRead \/ Deliver

SpecReset == InitResettable /\ [][NextReset]_vars

\* C33: after any sequence of init() and reset() calls one change feed is active, and
\* every committed write has its own change event: one call of each registered
\* listener and one whale:datachange broadcast, for that write alone.
C33_Step ==
    /\ subscriptions' <= 1
    /\ (last'.op = "change" /\ handles > 1) =>
          /\ Head(notifier.batch).seq = notifier.since + 1
          /\ Len(NewCalls) = Len(notifier.listeners) + 1
          /\ \A i \in DOMAIN notifier.listeners : NewCalls[i].to = notifier.listeners[i].id
          /\ NewCalls[Len(NewCalls)].to = "window"

C33_OneEventPerWrite == [][C33_Step]_vars

\* the part of C33 about the subscription alone
OneFeed == subscriptions <= 1 /\ (initialized => subscriptions = 1)

\* C34: when reset() returns the store is initialized, holds no document, and its
\* scratch space holds the defaults only (settings, version), the items without the
\* prefix being as they were; an init() called while
\* a reset() is running returns the promise of the initialization reset() starts,
\* not that of the database reset() destroys.
C34_Step ==
    /\ (last'.op = "reset" /\ last'.name = "done") =>
          /\ last'.ok
          /\ initialized'
          /\ Live(db') = {}
          /\ {k \in DOMAIN local' : StartsWithPrefix(k)}
                = {prefix \o "settings", prefix \o "version"}
    /\ last'.op \in {"reset", "performInit"} =>
          \A k \in DOMAIN local : ~StartsWithPrefix(k) =>
              (k \in DOMAIN local' /\ local'[k] = local[k])
    /\ \A p, q \in ResetCallers :
          (/\ task[q].pc \in {"destroy", "resetAwait"}
           /\ task[p].pc = "idle" /\ task'[p].pc = "await")
             => task'[p].promise > task[q].handle

C34_ResetStartsOver == [][C34_Step]_vars

\* the part of C34 about the store when reset() returns
ResetDone ==
    (last.op = "reset" /\ last.name = "done") =>
        /\ last.ok /\ initialized /\ Live(db) = {}
        /\ {k \in DOMAIN local : StartsWithPrefix(k)}
              = {prefix \o "settings", prefix \o "version"}

---------------------------------------------------------------------------
(* createOrganization called in sequence                                   *)

OrganizationForms ==
    { ("organizationId" :> o) @@ ("name" :> n) :
        o \in Organizations \cup {""}, n \in {"facility", "annex"} }

CreateOrganizationCall ==
    /\ CanWrite
    /\ \E data \in OrganizationForms :
         Commit(CreateOrganization(Store, data), "createOrganization", data)

NextOrganizations == CreateOrganizationCall \/ Tick
SpecOrganizations == InitInstalled /\ [][NextOrganizations]_vars

OrganizationsOf(d, organizationId) ==
    {o \in DbFind(d, Obj1("type", "organization")) :
        Field(o, "organizationId") = organizationId}

\* C35: createOrganization called with an organizationId that has an organization
\* document returns that document and creates none; after any sequence of
\* createOrganization calls no two organization documents have the same
\* organizationId.
C35_Step ==
    last'.op = "createOrganization" =>
        LET organizationId == last'.arg["organizationId"]
        IN /\ OrganizationsOf(db, organizationId) # {} =>
                 /\ last'.ok
                 /\ last'.ret \in OrganizationsOf(db, organizationId)
                 /\ db' = db
           /\ \A o \in OrganizationForms :
                 Cardinality(OrganizationsOf(db', o["organizationId"])) <= 1

OrganizationKeyed ==
    \A o \in Organizations : Cardinality(OrganizationsOf(db, o)) <= 1

---------------------------------------------------------------------------
(* The type of a stored document                                           *)

TypedForms ==
    { Obj1("temperature", "36.5"),
      ("temperature" :> "36.5") @@ ("type" :> "user") }

SaveTypedCall ==
    /\ CanWriteCrud
    /\ \E type \in {"daily_record", "attendance"}, data \in TypedForms :
         Commit(Save(Store, type, data), "save", Spread(data, Obj1("$type", type)))

NextTyped == SaveTypedCall \/ SaveDailyRecord \/ SaveAttendance \/ UpdateCall
SpecTyped == InitRegistered /\ [][NextTyped]_vars

\* C36: the document save(type, data) stores has the type given as argument,
\* whatever data holds; the records saveDailyRecord and saveAttendance create have
\* the types daily_record and attendance; and no call changes the type of a stored
\* document.
C36_Step ==
    /\ (last'.op = "save" /\ last'.ok) =>
          db'[last'.ret["_id"]].doc["type"] = last'.arg["$type"]
    /\ (/\ last'.op \in {"saveDailyRecord", "saveAttendance"} /\ last'.ok
        /\ last'.ret["_id"] \notin DOMAIN db) =>
          db'[last'.ret["_id"]].doc["type"]
             = (IF last'.op = "saveDailyRecord" THEN "daily_record" ELSE "attendance")
    /\ \A id \in Live(db) \cap Live(db') :
          Field(db'[id].doc, "type") = Field(db[id].doc, "type")

C36_TypeIsTheArgument == [][C36_Step]_vars

---------------------------------------------------------------------------
(* What import leaves alone                                                *)

\* the documents of the snapshot the database can take for the stored document id:
\* those that carry its id and its current revision
TakenFor(d, documents, id) ==
    {i \in DOMAIN documents :
        /\ Truthy(documents[i], "_id") /\ documents[i]["_id"] = id
        /\ Field(documents[i], "_rev") = d[id].doc["_rev"]}

\* C37: import leaves as it was every stored document whose id is not in the
\* snapshot, and every stored document for which the snapshot only holds documents
\* the database refuses; it deletes no document.
C37_Step ==
    last'.op = "import" =>
        LET documents == IF Has(last'.arg, "documents") THEN Parsed(last'.arg) ELSE <<>>
        IN /\ \A id \in Live(db) :
                 TakenFor(db, documents, id) = {} => (id \in DOMAIN db' /\ db'[id] = db[id])
           /\ Live(db) \subseteq Live(db')

---------------------------------------------------------------------------
(* The session of auth.js and the readers of currentUserId                 *)

\* sessionTimeout, in ticks of the clock: a session is too old one tick after its start
SessionTimeout == 0

TimeOf(t) == CHOOSE n \in 0..(MaxTime + 1) : Time(n) = t

\* startSession(user)
StartSession(s, user) ==
    [s EXCEPT !.local =
        SetLocal(SetLocal(SetLocal(@, s.now, "currentUserId", user["_id"]),
                          s.now, "sessionStart", Time(s.now)),
                 s.now, "isAuthenticated", "true")]

\* logout(): the three session keys are removed
EndSession(s) ==
    [s EXCEPT !.local =
        RemoveLocal(RemoveLocal(RemoveLocal(@, "currentUserId"), "sessionStart"),
                    "isAuthenticated")]

\* (mutant) checkAuth that answers false for a missing user and keeps the session
CheckAuthKeepsSession(s) ==
    LET isAuthenticated == GetLocal(s.local, "isAuthenticated")
        currentUserId == GetLocal(s.local, "currentUserId")
        sessionStart == GetLocal(s.local, "sessionStart")
    IN IF Falsy(isAuthenticated) \/ Falsy(currentUserId) \/ Falsy(sessionStart)
       THEN Returned(s, Obj1("value", "false"))
       ELSE IF s.now - TimeOf(sessionStart) > SessionTimeout
       THEN Returned(EndSession(s), Obj1("value", "false"))
       ELSE IF Get(s, currentUserId) = Null
       THEN Returned(s, Obj1("value", "false"))
       ELSE Returned(s, Obj1("value", "true"))

\* checkAuth()
CheckAuth(s) ==
    LET isAuthenticated == GetLocal(s.local, "isAuthenticated")
        currentUserId == GetLocal(s.local, "currentUserId")
        sessionStart == GetLocal(s.local, "sessionStart")
    IN IF Falsy(isAuthenticated) \/ Falsy(currentUserId) \/ Falsy(sessionStart)
       THEN Returned(s, Obj1("value", "false"))
       ELSE IF s.now - TimeOf(sessionStart) > SessionTimeout
       THEN Returned(EndSession(s), Obj1("value", "false"))
       ELSE IF Get(s, currentUserId) = Null
       THEN Returned(EndSession(s), Obj1("value", "false"))
       ELSE Returned(s, Obj1("value", "true"))

\* getUsers(): the users of the current user's organization
GetUsers(s) ==
    LET currentUser == GetCurrentUser(s)
    IN IF currentUser = Null THEN {}
       ELSE DbFind(s.db, ("type" :> "user")
                         @@ ("organizationId" :> Field(currentUser, "organizationId")))

\* what the scratch space says of the session when a call starts
SessionArg == Obj1("$currentUserId", GetLocal(local, "currentUserId"))

StartSessionCall ==
    /\ Falsy(GetLocal(local, "currentUserId"))
    /\ \E user \in DbFind(db, Obj1("type", "user")) :
         Commit(Returned(StartSession(Store, user), Null), "startSession", Null)

CheckAuthCall == initialized /\ Commit(CheckAuth(Store), "checkAuth", SessionArg)

GetCurrentUserCall ==
    initialized /\ Commit(Returned(Store, GetCurrentUser(Store)), "getCurrentUser", SessionArg)

GetUsersCall ==
    initialized /\ Commit(Returned(Store, Obj1("value", GetUsers(Store))), "getUsers", SessionArg)

NextSession ==
    StartSessionCall \/ CheckAuthCall \/ GetCurrentUserCall \/ GetUsersCall
      \/ SaveCall \/ DeleteCall \/ Tick
\* after registration, without a session or with the session startSession() opened
InitSession ==
    /\ db = Registered.db
    /\ revSeq = Registered.revSeq
    /\ idSeq = Registered.idSeq
    /\ now = 1
    /\ local \in {Registered.local}
                 \cup {StartSession(Registered, u).local :
                         u \in DbFind(Registered.db, Obj1("type", "user"))}
    /\ last = [op |-> "none", arg |-> Null, ok |-> TRUE, name |-> "", ret |-> Null]
    /\ task = Idle
    /\ InitUnused

SpecSession == InitSession /\ [][NextSession]_vars

\* currentUserId names no document of the store
Dangling(s) ==
    /\ ~Falsy(GetLocal(s.local, "currentUserId"))
    /\ GetLocal(s.local, "currentUserId") \notin Live(s.db)

SessionKeys == {"currentUserId", "sessionStart", "isAuthenticated"}

\* C38: when currentUserId names a document that is not in the store,
\* getCurrentUser returns null without throwing, getUsers returns the empty list,
\* and checkAuth returns false and leaves none of the session keys.
C38_Step ==
    Dangling(Store) =>
        /\ last'.op = "getCurrentUser" => (last'.ok /\ last'.ret = Null)
        /\ last'.op = "getUsers" => (last'.ok /\ last'.ret["value"] = {})
        /\ last'.op = "checkAuth" =>
              /\ last'.ok
              /\ last'.ret["value"] = "false"
              /\ \A key \in SessionKeys : ~Has(local', prefix \o key)

---------------------------------------------------------------------------
(* WhaleAPI (v2.0.0): request, refreshToken and the offline queue          *)

ApiCallers == {1, 2}
Endpoints == {"/api/records", "/api/users"}
RefreshEndpoint == "/api/auth/refresh"

\* what a fetch comes to: a response with its status, or no network
Answers == {"200", "401", "500", "offline"}

\* getLocal('requestQueue') || []
GetQueue(l) ==
    IF Has(l, prefix \o "requestQueue") THEN l[prefix \o "requestQueue"]["value"] ELSE <<>>

\* setLocal('requestQueue', queue)
SetQueue(l, t, queue) ==
    Spread(l, Obj1(prefix \o "requestQueue",
                   [value |-> queue, timestamp |-> Time(t), version |-> version]))

\* queueRequest(endpoint, options)
QueueRequest(l, t, endpoint) ==
    SetQueue(l, t, Append(GetQueue(l), [endpoint |-> endpoint, timestamp |-> Time(t)]))

\* getToken()
GetToken(a, l) == IF Falsy(a.token) THEN GetLocal(l, "authToken") ELSE a.token

ApiDone(p, op, endpoint, answer, ok) ==
    /\ task' = [task EXCEPT ![p] = [pc |-> "done", ok |-> ok]]
    /\ last' = [op |-> op, arg |-> Obj1("endpoint", endpoint), ok |-> ok, name |-> answer,
                ret |-> Null]

\* request(endpoint, options) up to `await fetch(url, config)`
RequestCall(p) ==
    /\ task[p].pc = "idle"
    /\ \E endpoint \in Endpoints :
         /\ task' = [task EXCEPT ![p] = [pc |-> "fetch", endpoint |-> endpoint]]
         /\ last' = [op |-> "request", arg |-> Obj1("endpoint", endpoint), ok |-> TRUE,
                     name |-> "fetch", ret |-> Null]
    /\ api' = [api EXCEPT !.token = GetToken(api, local)]
    /\ UNCHANGED <<storeVars, initVars, env, file, notifier>>

\* the fetch of request() settles.  A 401 with no refresh running: refreshToken()
\* sets the flag and posts to the refresh endpoint, up to the fetch of that request.
\* Any other response is handled; no network: the request is queued and an error
\* thrown.
FetchSettled(p) ==
    /\ task[p].pc = "fetch"
    /\ \E answer \in Answers :
         IF answer = "401" /\ ~api.refreshing
         THEN /\ api' = [token |-> GetToken(api, local), refreshing |-> TRUE]
              /\ task' = [task EXCEPT ![p] = [pc |-> "refresh", endpoint |-> task[p].endpoint]]
              /\ last' = [op |-> "request", arg |-> Obj1("endpoint", task[p].endpoint),
                          ok |-> TRUE, name |-> "refreshToken", ret |-> Null]
              /\ UNCHANGED local
         ELSE IF answer = "offline"
         THEN /\ Len(GetQueue(local)) < MaxQueue
              /\ local' = QueueRequest(local, now, task[p].endpoint)
              /\ ApiDone(p, "request", task[p].endpoint, answer, FALSE)
              /\ UNCHANGED api
         ELSE /\ ApiDone(p, "request", task[p].endpoint, answer, answer = "200")
              /\ UNCHANGED <<local, api>>
    /\ UNCHANGED <<db, revSeq, idSeq, now, initVars, env, file, notifier>>

\* the request of refreshToken() settles (the flag is set, so its 401 is an error
\* like another): the token is stored, or cleared and the page sent to login.html;
\* the flag is cleared and request() calls itself again, up to its fetch
RefreshSettled(p) ==
    /\ task[p].pc = "refresh"
    /\ \E answer \in Answers :
         /\ IF answer = "200"
            THEN /\ api' = [token |-> "token2", refreshing |-> FALSE]
                 /\ local' = SetLocal(local, now, "authToken", "token2")
            ELSE IF answer = "offline"
            THEN /\ Len(GetQueue(local)) < MaxQueue
                 /\ api' = [token |-> GetLocal(RemoveLocal(local, "authToken"), "authToken"),
                            refreshing |-> FALSE]
                 /\ local' = RemoveLocal(QueueRequest(local, now, RefreshEndpoint), "authToken")
            ELSE /\ api' = [token |-> GetLocal(RemoveLocal(local, "authToken"), "authToken"),
                            refreshing |-> FALSE]
                 /\ local' = RemoveLocal(local, "authToken")
         /\ last' = [op |-> "refreshToken", arg |-> Obj1("endpoint", task[p].endpoint),
                     ok |-> answer = "200", name |-> answer, ret |-> Null]
    /\ task' = [task EXCEPT ![p] = [pc |-> "fetch", endpoint |-> task[p].endpoint]]
    /\ UNCHANGED <<db, revSeq, idSeq, now, initVars, env, file, notifier>>

\* the caller goes on and may call request() again
RequestAgain(p) ==
    /\ task[p].pc = "done"
    /\ task' = [task EXCEPT ![p] = NoTask]
    /\ last' = [op |-> "request", arg |-> Null, ok |-> task[p].ok, name |-> "again",
                ret |-> Null]
    /\ UNCHANGED <<storeVars, initVars, outside>>

InitApi ==
    /\ db = EmptyStore.db
    /\ revSeq = 0
    /\ idSeq = 0
    /\ now = 1
    /\ local \in {InitLocalStorage(EmptyObj, 1),
                 SetLocal(InitLocalStorage(EmptyObj, 1), 1, "authToken", "token1")}
    /\ last = [op |-> "none", arg |-> Null, ok |-> TRUE, name |-> "", ret |-> Null]
    /\ task = [p \in ApiCallers |-> NoTask]
    /\ InitUnused

NextRequest ==
    \E p \in ApiCallers :
        RequestCall(p) \/ FetchSettled(p) \/ RefreshSettled(p) \/ RequestAgain(p)

\* every fetch settles
SpecRequest ==
    /\ InitApi /\ [][NextRequest]_vars
    /\ \A p \in ApiCallers : WF_vars(FetchSettled(p)) /\ WF_vars(RefreshSettled(p))

\* C40: every call of request() comes to an end, returning or throwing, whatever the
\* server answers, a 401 to every request and to the refresh included.
C40_RequestTerminates ==
    \A p \in ApiCallers : (task[p].pc = "fetch") ~> (task[p].pc = "done")

---------------------------------------------------------------------------
(* WhaleAPI: processQueue and the requests queued while it runs            *)

EndpointsOf(queue) == {queue[i].endpoint : i \in DOMAIN queue}

\* what re-sending a queued request comes to: sent, refused by the server, or no
\* network (request() then queues it again before it throws)
Resends == {"sent", "failed", "offline"}

\* queue.filter((item, index) => !results[index].success)
RECURSIVE Remaining(_, _, _)
Remaining(queue, results, i) ==
    IF i > Len(queue) THEN <<>>
    ELSE IF results[i] THEN Remaining(queue, results, i + 1)
    ELSE <<queue[i]>> \o Remaining(queue, results, i + 1)

\* a request() of another caller fails without network and is queued; requests are
\* told apart by their endpoint
OfflineRequest ==
    /\ Len(GetQueue(local)) < MaxQueue
    /\ \E endpoint \in Endpoints :
         /\ endpoint \notin EndpointsOf(GetQueue(local))
         /\ \A p \in ApiCallers :
               task[p].pc = "send" => endpoint \notin EndpointsOf(task[p].queue)
         /\ local' = QueueRequest(local, now, endpoint)
         /\ last' = [op |-> "queueRequest", arg |-> Obj1("endpoint", endpoint), ok |-> TRUE,
                     name |-> "", ret |-> Null]
    /\ UNCHANGED <<db, revSeq, idSeq, now, initVars, outside, task>>

\* processQueue() up to the first `await this.request(...)`; it returns at once when
\* the stored queue is empty
ProcessStart(p) ==
    /\ task[p].pc = "idle"
    /\ LET queue == GetQueue(local)
       IN /\ task' = [task EXCEPT ![p] =
                IF queue = <<>> THEN [pc |-> "done", ok |-> TRUE]
                ELSE [pc |-> "send", queue |-> queue, results |-> <<>>]]
          /\ last' = [op |-> "processQueue", arg |-> Obj1("queue", queue), ok |-> TRUE,
                      name |-> "start", ret |-> Null]
    /\ UNCHANGED <<storeVars, initVars, outside>>

\* the request of the next item settles; after the last one the requests that
\* failed are written as the stored queue
ProcessSend(p) ==
    /\ task[p].pc = "send"
    /\ \E resend \in Resends :
         LET i == Len(task[p].results) + 1
             results == Append(task[p].results, resend = "sent")
             queued == IF resend = "offline"
                       THEN QueueRequest(local, now, task[p].queue[i].endpoint)
                       ELSE local
         IN /\ resend = "offline" => Len(GetQueue(local)) <= MaxQueue
            /\ IF i < Len(task[p].queue)
               THEN /\ task' = [task EXCEPT ![p] = [@ EXCEPT !.results = results]]
                    /\ local' = queued
                    /\ last' = [op |-> "processQueue", arg |-> Obj1("queue", task[p].queue),
                                ok |-> TRUE, name |-> "send", ret |-> Null]
               ELSE /\ task' = [task EXCEPT ![p] = [pc |-> "done", ok |-> TRUE]]
                    /\ local' = SetQueue(queued, now, Remaining(task[p].queue, results, 1))
                    /\ last' = [op |-> "processQueue", arg |-> Obj1("queue", task[p].queue),
                                ok |-> TRUE, name |-> "done", ret |-> results]
    /\ UNCHANGED <<db, revSeq, idSeq, now, initVars, outside>>

NextQueue ==
    \/ OfflineRequest
    \/ \E p \in ApiCallers : ProcessStart(p) \/ ProcessSend(p) \/ RequestAgain(p)
SpecQueue == InitApi /\ [][NextQueue]_vars

\* C39: when processQueue returns, the stored queue holds, of the requests it read,
\* those whose re-send failed, once each and in their order; and a request another
\* call queued while processQueue ran is still in the stored queue.
C39_Step ==
    (last'.op = "processQueue" /\ last'.name = "done") =>
        LET queue == last'.arg["queue"]
            results == last'.ret
            stored == GetQueue(local')
        IN /\ SelectSeq(stored, LAMBDA item : item.endpoint \in EndpointsOf(queue))
                 = Remaining(queue, results, 1)
           /\ \A i \in DOMAIN GetQueue(local) :
                 GetQueue(local)[i].endpoint \notin EndpointsOf(queue) =>
                    \E j \in DOMAIN stored : stored[j] = GetQueue(local)[i]

C39_QueueKeepsTheFailed == [][C39_Step]_vars
===========================================================================
